---- MODULE Spec2Model ----
(***************************************************************************)
(* Model of the Rimon AI-automation dashboard (src/main.py): the three     *)
(* keyword classifiers over their taxonomy tables, the load / flat-fee /   *)
(* filter / classify / aggregate pipeline of main(), its cost-savings tab  *)
(* and its projection tab.                                                 *)
(*                                                                         *)
(* Representation.                                                         *)
(*  - A text is the sequence of its characters, each a one-character       *)
(*    string, so that substring tests and .lower() are computed.           *)
(*  - A cell that pandas may hold as NaN is an optional value: None is     *)
(*    <<>> and Some(v) is <<v>>.                                           *)
(*  - automation_potential is held in hundredths (0.82 is 82).             *)
(*  - Hours are held in thousandths of an hour (12.5 h is 12500); the      *)
(*    inputs are multiples of a tenth of an hour, so hours * potential     *)
(*    is exact in thousandths.                                             *)
(*  - The float values of the cost-savings and predictions tabs are exact  *)
(*    fractions [num, den] of hours, dollars and percent; den = 0 holds    *)
(*    the results of a float division by zero (nan, inf, -inf).  Rounding  *)
(*    of floats is not modelled.                                           *)
(***************************************************************************)
EXTENDS Integers, Sequences, FiniteSets, TLC

VARIABLES
  pc,          \* position of the run
  text,        \* classifier input of the classifier specification (optional text)
  tax,         \* taxonomy of the last classifier call: "legalbench", "oli", "task", "none"
  result,      \* <<category, potential>> returned by the last classifier call, <<>> before
  scores,      \* the local dict `scores` of the last classifier call, in insertion order
  csv,         \* the rows of the time-entry export
  df,          \* the DataFrame returned by load_data, with the columns main() adds
  selected_years,   \* the year multiselect
  selected_users,   \* the user multiselect
  filtered_df,      \* the filtered DataFrame and the columns added to it
  total_hours,      \* tab 1: filtered_df['Billable Hours'].sum()
  automatable_hours,\* tab 1: filtered_df['Automatable_Hours'].sum()
  automation_rate,  \* tab 1: automatable share of the total, in percent
  monthly_data,     \* tab 1: sums by (Year, Month, Month_Name)
  user_hours,       \* tab 1: sums by User Name
  matter_hours,     \* tab 1: sums by Matter Name
  oli_total,        \* tab 2: filtered_df['Billable Hours'].sum()
  oli_automatable,  \* tab 2: filtered_df['OLI_Automatable_Hours'].sum()
  oli_rate,         \* tab 2: tiered automatable share of the total, in percent
  oli_manual,       \* tab 2: filtered_df['OLI_Manual_Hours'].sum()
  oli_manual_delta, \* tab 2: delta of the 'Human-Required' metric, in percent
  oli_monthly,      \* tab 2: sums by (Year, Month, Month_Name)
  matter_analysis,  \* tab 2: sums and Automation_Rate by Matter Name
  avg_hourly_rate,     \* tab 3: 'Average Hourly Rate ($)' input
  ai_efficiency_gain,  \* tab 3: 'AI Efficiency Gain (%)' slider / 100
  ai_cost_per_hour,    \* tab 3: 'AI Cost per Hour ($)' input
  hours_saved,         \* tab 3: automatable_hours * ai_efficiency_gain
  labor_saved,         \* tab 3: hours_saved * avg_hourly_rate
  ai_cost,             \* tab 3: automatable_hours * ai_cost_per_hour
  net_savings,         \* tab 3: labor_saved - ai_cost
  roi,                 \* tab 3: net_savings over ai_cost, in percent
  hours_saved_delta,   \* tab 3: delta of 'Hours Potentially Saved', in percent
  category_savings,    \* tab 3: savings by Task_Category
  monthly_savings,     \* tab 3: savings by (Year, Month) with the running sum
  current_data,          \* tab 4: the rows of filtered_df of the year 2025
  months_elapsed,        \* tab 4: latest_month
  months_remaining,      \* tab 4: 12 - months_elapsed
  monthly_avg,           \* tab 4: mean of the monthly sums
  projected_total,       \* tab 4: 'Projected Total Hours (2025)'
  projected_automatable, \* tab 4: 'Projected Automatable Hours'
  projected_delta,       \* tab 4: delta of 'Projected Automatable Hours', in percent
  projected_savings,     \* tab 4: 'Projected Annual Savings'
  projection_df,         \* tab 4: one record per month of the year
  scenario_results,      \* tab 4: the rows of the scenario table
  warning,               \* tab 4: the text of st.warning, None when not shown
  registry,    \* the three taxonomy tables as the worker calls find them
  batch,       \* the texts of the entries given to the workers
  frames,      \* the local variables of the call each worker is in, Idle when in none
  labels,      \* the result assigned to each entry, None until its call returns
  session_state,     \* st.session_state: the keys 'password_correct' and 'password'
  clicked,           \* whether the run was started by the Logout button
  prompt,            \* the notice under the password input, None when no prompt is shown
  data_folder,       \* the files at the paths of the task-level export
  detailed_csv_path, \* the path returned by check_for_detailed_csv
  has_detailed_data, \* detailed_csv_path is not None; None until it is assigned
  detailed_df,       \* tab 6: the task-level frame with the columns added to it
  task_total,        \* tab 6: detailed_df['Hours'].sum()
  task_auto,         \* tab 6: detailed_df['Task_Automatable_Hours'].sum()
  task_rate,         \* tab 6: automatable share of the task hours, in percent
  error              \* tab 6: the text of st.error, None when not shown

classifier == <<text, tax, result, scores>>
selection == <<selected_years, selected_users, filtered_df>>
tab1 == <<total_hours, automatable_hours, automation_rate, monthly_data, user_hours,
          matter_hours>>
tab2 == <<oli_total, oli_automatable, oli_rate, oli_manual, oli_manual_delta,
          oli_monthly, matter_analysis>>
tab3 == <<avg_hourly_rate, ai_efficiency_gain, ai_cost_per_hour, hours_saved,
          labor_saved, ai_cost, net_savings, roi, hours_saved_delta,
          category_savings, monthly_savings>>
tab4 == <<current_data, months_elapsed, months_remaining, monthly_avg,
          projected_total, projected_automatable, projected_delta,
          projected_savings, projection_df, scenario_results, warning>>

pool == <<registry, batch, frames, labels>>
session == <<session_state, clicked, prompt>>
tab6 == <<detailed_df, task_total, task_auto, task_rate, error>>
detailed == <<detailed_csv_path, has_detailed_data>>

vars == <<pc, classifier, csv, df, selection, tab1, tab2, tab3, tab4, pool,
          session, data_folder, detailed, tab6>>

None == <<>>
Some(v) == <<v>>
Val(x) == x[1]

\* LEGALBENCH_TASKS (src/main.py:46-219), in declaration order.
LEGALBENCH_TASKS ==
  << [ category |-> "Contract-Clause-Identification",
       automation_potential |-> 92,
       keywords |-> <<
         <<"c","o","n","t","r","a","c","t">>,  \* 'contract'
         <<"a","g","r","e","e","m","e","n","t">>,  \* 'agreement'
         <<"l","e","a","s","e">>,  \* 'lease'
         <<"l","i","c","e","n","s","e">>,  \* 'license'
         <<"l","i","c","e","n","s","i","n","g">>,  \* 'licensing'
         <<"a","m","e","n","d","m","e","n","t">>,  \* 'amendment'
         <<"a","d","d","e","n","d","u","m">>,  \* 'addendum'
         <<"n","d","a">>,  \* 'nda'
         <<"m","s","a">>,  \* 'msa'
         <<"s","l","a">>,  \* 'sla'
         <<"c","o","n","s","u","l","t","i","n","g"," ","a","g","r","e","e","m","e","n","t">>,  \* 'consulting agreement'
         <<"s","e","r","v","i","c","e"," ","a","g","r","e","e","m","e","n","t">>,  \* 'service agreement'
         <<"v","e","n","d","o","r">>,  \* 'vendor'
         <<"s","u","p","p","l","i","e","r">>,  \* 'supplier'
         <<"p","r","o","c","u","r","e","m","e","n","t">>,  \* 'procurement'
         <<"t","e","r","m","s">>,  \* 'terms'
         <<"c","l","a","u","s","e"," ","r","e","v","i","e","w">>   \* 'clause review'
       >> ],
     [ category |-> "MA-Deal-Terms",
       automation_potential |-> 82,
       keywords |-> <<
         <<"a","c","q","u","i","s","i","t","i","o","n">>,  \* 'acquisition'
         <<"m","e","r","g","e","r">>,  \* 'merger'
         <<"b","u","y","o","u","t">>,  \* 'buyout'
         <<"p","u","r","c","h","a","s","e">>,  \* 'purchase'
         <<"s","a","l","e">>,  \* 'sale'
         <<"t","r","a","n","s","a","c","t","i","o","n">>,  \* 'transaction'
         <<"m","&","a">>,  \* 'm&a'
         <<"d","u","e"," ","d","i","l","i","g","e","n","c","e">>,  \* 'due diligence'
         <<"c","l","o","s","i","n","g">>,  \* 'closing'
         <<"e","a","r","n","o","u","t">>,  \* 'earnout'
         <<"e","s","c","r","o","w">>,  \* 'escrow'
         <<"i","n","d","e","m","n","i","t">>,  \* 'indemnit'
         <<"r","e","p","r","e","s","e","n","t","a","t","i","o","n"," ","a","n","d"," ","w","a","r","r","a","n","t">>,  \* 'representation and warrant'
         <<"d","e","f","i","n","i","t","i","v","e"," ","a","g","r","e","e","m","e","n","t">>   \* 'definitive agreement'
       >> ],
     [ category |-> "Corporate-Governance",
       automation_potential |-> 80,
       keywords |-> <<
         <<"g","e","n","e","r","a","l"," ","c","o","r","p","o","r","a","t","e">>,  \* 'general corporate'
         <<"c","o","r","p","o","r","a","t","e"," ","m","a","t","t","e","r","s">>,  \* 'corporate matters'
         <<"c","o","r","p","o","r","a","t","e"," ","g","o","v","e","r","n","a","n","c","e">>,  \* 'corporate governance'
         <<"f","o","r","m","a","t","i","o","n">>,  \* 'formation'
         <<"i","n","c","o","r","p","o","r","a","t","i","o","n">>,  \* 'incorporation'
         <<"l","l","c">>,  \* 'llc'
         <<"c","o","r","p","o","r","a","t","i","o","n">>,  \* 'corporation'
         <<"b","y","l","a","w","s">>,  \* 'bylaws'
         <<"o","p","e","r","a","t","i","n","g"," ","a","g","r","e","e","m","e","n","t">>,  \* 'operating agreement'
         <<"s","h","a","r","e","h","o","l","d","e","r">>,  \* 'shareholder'
         <<"b","o","a","r","d">>,  \* 'board'
         <<"d","i","r","e","c","t","o","r">>,  \* 'director'
         <<"o","f","f","i","c","e","r">>,  \* 'officer'
         <<"c","o","r","p","o","r","a","t","e"," ","a","d","v","i","c","e">>,  \* 'corporate advice'
         <<"g","e","n","e","r","a","l"," ","r","e","p","r","e","s","e","n","t","a","t","i","o","n">>,  \* 'general representation'
         <<"r","e","t","a","i","n","e","r">>,  \* 'retainer'
         <<"c","o","r","p","o","r","a","t","e"," ","c","o","u","n","s","e","l">>,  \* 'corporate counsel'
         <<"s","p","v">>,  \* 'spv'
         <<"e","n","t","i","t","y">>   \* 'entity'
       >> ],
     [ category |-> "Securities-Compliance",
       automation_potential |-> 78,
       keywords |-> <<
         <<"s","e","c","u","r","i","t","i","e","s">>,  \* 'securities'
         <<"s","e","c">>,  \* 'sec'
         <<"o","f","f","e","r","i","n","g">>,  \* 'offering'
         <<"p","r","i","v","a","t","e"," ","p","l","a","c","e","m","e","n","t">>,  \* 'private placement'
         <<"r","e","g","u","l","a","t","i","o","n"," ","d">>,  \* 'regulation d'
         <<"s","t","o","c","k">>,  \* 'stock'
         <<"e","q","u","i","t","y">>,  \* 'equity'
         <<"f","i","n","a","n","c","i","n","g">>,  \* 'financing'
         <<"i","n","v","e","s","t","m","e","n","t">>,  \* 'investment'
         <<"f","u","n","d">>,  \* 'fund'
         <<"i","n","v","e","s","t","o","r">>   \* 'investor'
       >> ],
     [ category |-> "Litigation-Matters",
       automation_potential |-> 75,
       keywords |-> <<
         <<" ","v"," ">>,  \* ' v '
         <<" ","v","."," ">>,  \* ' v. '
         <<" ","v","s"," ">>,  \* ' vs '
         <<" ","v","s","."," ">>,  \* ' vs. '
         <<" ","v","e","r","s","u","s"," ">>,  \* ' versus '
         <<"l","i","t","i","g","a","t","i","o","n">>,  \* 'litigation'
         <<"l","a","w","s","u","i","t">>,  \* 'lawsuit'
         <<"c","o","m","p","l","a","i","n","t">>,  \* 'complaint'
         <<"d","i","s","p","u","t","e">>,  \* 'dispute'
         <<"a","r","b","i","t","r","a","t","i","o","n">>,  \* 'arbitration'
         <<"m","e","d","i","a","t","i","o","n">>,  \* 'mediation'
         <<"t","r","i","a","l">>,  \* 'trial'
         <<"h","e","a","r","i","n","g">>,  \* 'hearing'
         <<"m","o","t","i","o","n">>,  \* 'motion'
         <<"d","i","s","c","o","v","e","r","y">>,  \* 'discovery'
         <<"d","e","p","o","s","i","t","i","o","n">>,  \* 'deposition'
         <<"s","e","t","t","l","e","m","e","n","t">>,  \* 'settlement'
         <<"j","u","d","g","m","e","n","t">>,  \* 'judgment'
         <<"a","p","p","e","a","l">>,  \* 'appeal'
         <<"c","o","u","r","t">>,  \* 'court'
         <<"p","l","a","i","n","t","i","f","f">>,  \* 'plaintiff'
         <<"d","e","f","e","n","d","a","n","t">>   \* 'defendant'
       >> ],
     [ category |-> "Bankruptcy-Receivership",
       automation_potential |-> 73,
       keywords |-> <<
         <<"b","a","n","k","r","u","p","t","c","y">>,  \* 'bankruptcy'
         <<"c","h","a","p","t","e","r"," ","1","1">>,  \* 'chapter 11'
         <<"c","h","a","p","t","e","r"," ","7">>,  \* 'chapter 7'
         <<"r","e","c","e","i","v","e","r">>,  \* 'receiver'
         <<"r","e","c","e","i","v","e","r","s","h","i","p">>,  \* 'receivership'
         <<"c","r","e","d","i","t","o","r">>,  \* 'creditor'
         <<"d","e","b","t","o","r">>,  \* 'debtor'
         <<"i","n","s","o","l","v","e","n","c","y">>,  \* 'insolvency'
         <<"r","e","o","r","g","a","n","i","z","a","t","i","o","n">>,  \* 'reorganization'
         <<"l","i","q","u","i","d","a","t","i","o","n">>   \* 'liquidation'
       >> ],
     [ category |-> "Employment-Law",
       automation_potential |-> 80,
       keywords |-> <<
         <<"e","m","p","l","o","y","m","e","n","t">>,  \* 'employment'
         <<"e","m","p","l","o","y","e","e">>,  \* 'employee'
         <<"h","r"," ">>,  \* 'hr '
         <<"h","u","m","a","n"," ","r","e","s","o","u","r","c","e","s">>,  \* 'human resources'
         <<"l","a","b","o","r">>,  \* 'labor'
         <<"t","e","r","m","i","n","a","t","i","o","n">>,  \* 'termination'
         <<"s","e","v","e","r","a","n","c","e">>,  \* 'severance'
         <<"d","i","s","c","r","i","m","i","n","a","t","i","o","n">>,  \* 'discrimination'
         <<"h","a","r","a","s","s","m","e","n","t">>,  \* 'harassment'
         <<"w","a","g","e">>,  \* 'wage'
         <<"c","o","m","p","e","n","s","a","t","i","o","n">>,  \* 'compensation'
         <<"b","e","n","e","f","i","t","s">>,  \* 'benefits'
         <<"n","o","n","-","c","o","m","p","e","t","e">>,  \* 'non-compete'
         <<"r","e","s","t","r","i","c","t","i","v","e"," ","c","o","v","e","n","a","n","t">>,  \* 'restrictive covenant'
         <<"w","r","o","n","g","f","u","l"," ","t","e","r","m","i","n","a","t","i","o","n">>,  \* 'wrongful termination'
         <<"e","m","p","l","o","y","m","e","n","t"," ","a","g","r","e","e","m","e","n","t">>   \* 'employment agreement'
       >> ],
     [ category |-> "Real-Estate",
       automation_potential |-> 75,
       keywords |-> <<
         <<"r","e","a","l"," ","e","s","t","a","t","e">>,  \* 'real estate'
         <<"p","r","o","p","e","r","t","y">>,  \* 'property'
         <<"l","e","a","s","e">>,  \* 'lease'
         <<"l","a","n","d","l","o","r","d">>,  \* 'landlord'
         <<"t","e","n","a","n","t">>,  \* 'tenant'
         <<"r","e","n","t","a","l">>,  \* 'rental'
         <<"c","o","m","m","e","r","c","i","a","l"," ","l","e","a","s","e">>,  \* 'commercial lease'
         <<"r","e","t","a","i","l"," ","l","e","a","s","e">>,  \* 'retail lease'
         <<"o","f","f","i","c","e"," ","l","e","a","s","e">>,  \* 'office lease'
         <<"t","i","t","l","e">>,  \* 'title'
         <<"e","s","c","r","o","w">>,  \* 'escrow'
         <<"d","e","e","d">>,  \* 'deed'
         <<"m","o","r","t","g","a","g","e">>,  \* 'mortgage'
         <<"f","o","r","e","c","l","o","s","u","r","e">>,  \* 'foreclosure'
         <<"e","a","s","e","m","e","n","t">>,  \* 'easement'
         <<"z","o","n","i","n","g">>   \* 'zoning'
       >> ],
     [ category |-> "Intellectual-Property",
       automation_potential |-> 85,
       keywords |-> <<
         <<"p","a","t","e","n","t">>,  \* 'patent'
         <<"t","r","a","d","e","m","a","r","k">>,  \* 'trademark'
         <<"c","o","p","y","r","i","g","h","t">>,  \* 'copyright'
         <<"i","n","t","e","l","l","e","c","t","u","a","l"," ","p","r","o","p","e","r","t","y">>,  \* 'intellectual property'
         <<" ","i","p"," ">>,  \* ' ip '
         <<"i","n","f","r","i","n","g","e","m","e","n","t">>,  \* 'infringement'
         <<"l","i","c","e","n","s","i","n","g">>,  \* 'licensing'
         <<"r","o","y","a","l","t","y">>,  \* 'royalty'
         <<"t","r","a","d","e"," ","s","e","c","r","e","t">>,  \* 'trade secret'
         <<"c","o","n","f","i","d","e","n","t","i","a","l">>,  \* 'confidential'
         <<"e","p","o">>,  \* 'epo'
         <<"u","s","p","t","o">>,  \* 'uspto'
         <<"o","f","f","i","c","e"," ","a","c","t","i","o","n">>,  \* 'office action'
         <<"p","r","o","s","e","c","u","t","i","o","n">>,  \* 'prosecution'
         <<"p","o","r","t","f","o","l","i","o">>   \* 'portfolio'
       >> ],
     [ category |-> "Estate-Planning",
       automation_potential |-> 88,
       keywords |-> <<
         <<"e","s","t","a","t","e"," ","p","l","a","n","n","i","n","g">>,  \* 'estate planning'
         <<"e","s","t","a","t","e">>,  \* 'estate'
         <<"t","r","u","s","t">>,  \* 'trust'
         <<"w","i","l","l">>,  \* 'will'
         <<"p","r","o","b","a","t","e">>,  \* 'probate'
         <<"t","r","u","s","t","e","e">>,  \* 'trustee'
         <<"b","e","n","e","f","i","c","i","a","r","y">>,  \* 'beneficiary'
         <<"i","n","h","e","r","i","t","a","n","c","e">>,  \* 'inheritance'
         <<"s","u","c","c","e","s","s","i","o","n">>,  \* 'succession'
         <<"g","i","f","t">>,  \* 'gift'
         <<"e","s","t","a","t","e"," ","t","a","x">>,  \* 'estate tax'
         <<"g","e","n","e","r","a","t","i","o","n"," ","s","k","i","p","p","i","n","g">>,  \* 'generation skipping'
         <<"l","i","v","i","n","g"," ","t","r","u","s","t">>,  \* 'living trust'
         <<"t","e","s","t","a","m","e","n","t","a","r","y">>,  \* 'testamentary'
         <<"a","d","m","i","n","i","s","t","r","a","t","i","o","n">>,  \* 'administration'
         <<"e","x","e","c","u","t","o","r">>,  \* 'executor'
         <<"f","i","d","u","c","i","a","r","y">>   \* 'fiduciary'
       >> ],
     [ category |-> "Family-Law",
       automation_potential |-> 68,
       keywords |-> <<
         <<"d","i","v","o","r","c","e">>,  \* 'divorce'
         <<"d","i","s","s","o","l","u","t","i","o","n">>,  \* 'dissolution'
         <<"m","a","r","r","i","a","g","e">>,  \* 'marriage'
         <<"c","u","s","t","o","d","y">>,  \* 'custody'
         <<"c","h","i","l","d"," ","s","u","p","p","o","r","t">>,  \* 'child support'
         <<"a","l","i","m","o","n","y">>,  \* 'alimony'
         <<"s","p","o","u","s","a","l"," ","s","u","p","p","o","r","t">>,  \* 'spousal support'
         <<"m","a","r","i","t","a","l">>,  \* 'marital'
         <<"f","a","m","i","l","y"," ","l","a","w">>,  \* 'family law'
         <<"p","r","e","n","u","p">>,  \* 'prenup'
         <<"p","o","s","t","n","u","p">>,  \* 'postnup'
         <<"s","e","p","a","r","a","t","i","o","n">>,  \* 'separation'
         <<"d","o","m","e","s","t","i","c">>,  \* 'domestic'
         <<"p","a","r","e","n","t","i","n","g">>,  \* 'parenting'
         <<"v","i","s","i","t","a","t","i","o","n">>   \* 'visitation'
       >> ],
     [ category |-> "Tax-Law",
       automation_potential |-> 75,
       keywords |-> <<
         <<"t","a","x">>,  \* 'tax'
         <<"i","r","s">>,  \* 'irs'
         <<"t","a","x","a","t","i","o","n">>,  \* 'taxation'
         <<"t","a","x"," ","p","l","a","n","n","i","n","g">>,  \* 'tax planning'
         <<"t","a","x"," ","c","o","m","p","l","i","a","n","c","e">>,  \* 'tax compliance'
         <<"t","a","x"," ","r","e","t","u","r","n">>,  \* 'tax return'
         <<"a","u","d","i","t">>,  \* 'audit'
         <<"t","a","x"," ","d","i","s","p","u","t","e">>,  \* 'tax dispute'
         <<"t","a","x"," ","o","p","i","n","i","o","n">>,  \* 'tax opinion'
         <<"t","a","x"," ","s","t","r","u","c","t","u","r","e">>   \* 'tax structure'
       >> ],
     [ category |-> "Immigration-Law",
       automation_potential |-> 78,
       keywords |-> <<
         <<"i","m","m","i","g","r","a","t","i","o","n">>,  \* 'immigration'
         <<"v","i","s","a">>,  \* 'visa'
         <<"h","-","1","b">>,  \* 'h-1b'
         <<"g","r","e","e","n"," ","c","a","r","d">>,  \* 'green card'
         <<"c","i","t","i","z","e","n","s","h","i","p">>,  \* 'citizenship'
         <<"n","a","t","u","r","a","l","i","z","a","t","i","o","n">>,  \* 'naturalization'
         <<"d","e","p","o","r","t","a","t","i","o","n">>,  \* 'deportation'
         <<"a","s","y","l","u","m">>,  \* 'asylum'
         <<"r","e","f","u","g","e","e">>,  \* 'refugee'
         <<"w","o","r","k"," ","p","e","r","m","i","t">>,  \* 'work permit'
         <<"u","s","c","i","s">>,  \* 'uscis'
         <<"i","c","e">>,  \* 'ice'
         <<"b","o","r","d","e","r">>,  \* 'border'
         <<"i","m","m","i","g","r","a","n","t">>   \* 'immigrant'
       >> ],
     [ category |-> "Regulatory-Compliance",
       automation_potential |-> 83,
       keywords |-> <<
         <<"r","e","g","u","l","a","t","o","r","y">>,  \* 'regulatory'
         <<"c","o","m","p","l","i","a","n","c","e">>,  \* 'compliance'
         <<"r","e","g","u","l","a","t","i","o","n">>,  \* 'regulation'
         <<"p","e","r","m","i","t">>,  \* 'permit'
         <<"l","i","c","e","n","s","e">>,  \* 'license'
         <<"g","o","v","e","r","n","m","e","n","t">>,  \* 'government'
         <<"a","g","e","n","c","y">>,  \* 'agency'
         <<"f","d","a">>,  \* 'fda'
         <<"e","p","a">>,  \* 'epa'
         <<"o","s","h","a">>,  \* 'osha'
         <<"f","t","c">>,  \* 'ftc'
         <<"f","c","c">>,  \* 'fcc'
         <<"a","d","m","i","n","i","s","t","r","a","t","i","v","e">>,  \* 'administrative'
         <<"r","u","l","e","m","a","k","i","n","g">>,  \* 'rulemaking'
         <<"e","n","f","o","r","c","e","m","e","n","t">>,  \* 'enforcement'
         <<"i","n","v","e","s","t","i","g","a","t","i","o","n">>   \* 'investigation'
       >> ],
     [ category |-> "Cannabis-Law",
       automation_potential |-> 72,
       keywords |-> <<
         <<"c","a","n","n","a","b","i","s">>,  \* 'cannabis'
         <<"m","a","r","i","j","u","a","n","a">>,  \* 'marijuana'
         <<"d","i","s","p","e","n","s","a","r","y">>,  \* 'dispensary'
         <<"c","u","l","t","i","v","a","t","i","o","n">>,  \* 'cultivation'
         <<"c","b","d">>,  \* 'cbd'
         <<"t","h","c">>,  \* 'thc'
         <<"h","e","m","p">>,  \* 'hemp'
         <<"m","a","r","i","j","u","a","n","a"," ","l","i","c","e","n","s","e">>,  \* 'marijuana license'
         <<"c","a","n","n","a","b","i","s"," ","l","i","c","e","n","s","e">>   \* 'cannabis license'
       >> ],
     [ category |-> "Healthcare-Law",
       automation_potential |-> 74,
       keywords |-> <<
         <<"h","e","a","l","t","h","c","a","r","e">>,  \* 'healthcare'
         <<"m","e","d","i","c","a","l">>,  \* 'medical'
         <<"h","o","s","p","i","t","a","l">>,  \* 'hospital'
         <<"p","h","y","s","i","c","i","a","n">>,  \* 'physician'
         <<"h","i","p","a","a">>,  \* 'hipaa'
         <<"h","e","a","l","t","h"," ","i","n","s","u","r","a","n","c","e">>,  \* 'health insurance'
         <<"m","e","d","i","c","a","r","e">>,  \* 'medicare'
         <<"m","e","d","i","c","a","i","d">>,  \* 'medicaid'
         <<"p","h","a","r","m","a","c","e","u","t","i","c","a","l">>   \* 'pharmaceutical'
       >> ],
     [ category |-> "General-Matters",
       automation_potential |-> 65,
       keywords |-> <<
         <<"g","e","n","e","r","a","l"," ","m","a","t","t","e","r","s">>,  \* 'general matters'
         <<"g","e","n","e","r","a","l">>,  \* 'general'
         <<"a","d","v","i","c","e">>,  \* 'advice'
         <<"c","o","u","n","s","e","l">>,  \* 'counsel'
         <<"c","o","n","s","u","l","t","a","t","i","o","n">>,  \* 'consultation'
         <<"m","i","s","c","e","l","l","a","n","e","o","u","s">>,  \* 'miscellaneous'
         <<"v","a","r","i","o","u","s">>,  \* 'various'
         <<"o","t","h","e","r">>   \* 'other'
       >> ],
     [ category |-> "Internal-Time",
       automation_potential |-> 0,
       keywords |-> <<
         <<"i","n","t","e","r","n","a","l"," ","t","i","m","e">>,  \* 'internal time'
         <<"i","n","t","e","r","n","a","l">>,  \* 'internal'
         <<"a","d","m","i","n">>,  \* 'admin'
         <<"a","d","m","i","n","i","s","t","r","a","t","i","v","e">>,  \* 'administrative'
         <<"t","r","a","i","n","i","n","g">>,  \* 'training'
         <<"b","u","s","i","n","e","s","s"," ","d","e","v","e","l","o","p","m","e","n","t">>,  \* 'business development'
         <<"m","a","r","k","e","t","i","n","g">>,  \* 'marketing'
         <<"f","i","r","m">>,  \* 'firm'
         <<"v","a","c","a","t","i","o","n">>,  \* 'vacation'
         <<"p","t","o">>,  \* 'pto'
         <<"s","i","c","k">>,  \* 'sick'
         <<"h","o","l","i","d","a","y">>   \* 'holiday'
       >> ] >>

\* RIMON_OLI_BENCHMARK (src/main.py:222-291), in declaration order.
RIMON_OLI_BENCHMARK ==
  << [ category |-> "100% AI Replaceable - Routine Corporate & Documents",
       automation_potential |-> 100,
       keywords |-> <<
         <<"g","e","n","e","r","a","l"," ","c","o","r","p","o","r","a","t","e">>,  \* 'general corporate'
         <<"c","o","r","p","o","r","a","t","e"," ","m","a","t","t","e","r","s">>,  \* 'corporate matters'
         <<"g","e","n","e","r","a","l"," ","r","e","p","r","e","s","e","n","t","a","t","i","o","n">>,  \* 'general representation'
         <<"r","e","t","a","i","n","e","r">>,  \* 'retainer'
         <<"g","e","n","e","r","a","l"," ","m","a","t","t","e","r","s">>,  \* 'general matters'
         <<"g","e","n","e","r","a","l">>,  \* 'general'
         <<"a","d","v","i","c","e"," ","a","n","d"," ","c","o","u","n","s","e","l">>,  \* 'advice and counsel'
         <<"c","o","r","p","o","r","a","t","e"," ","a","d","v","i","c","e">>,  \* 'corporate advice'
         <<"g","e","n","e","r","a","l"," ","c","o","r","p","o","r","a","t","e"," ","a","d","v","i","c","e">>   \* 'general corporate advice'
       >> ],
     [ category |-> "100% AI Replaceable - Estate Planning",
       automation_potential |-> 100,
       keywords |-> <<
         <<"e","s","t","a","t","e"," ","p","l","a","n","n","i","n","g">>,  \* 'estate planning'
         <<"e","s","t","a","t","e">>,  \* 'estate'
         <<"t","r","u","s","t">>,  \* 'trust'
         <<"w","i","l","l">>,  \* 'will'
         <<"p","r","o","b","a","t","e">>,  \* 'probate'
         <<"t","r","u","s","t"," ","a","d","m","i","n","i","s","t","r","a","t","i","o","n">>   \* 'trust administration'
       >> ],
     [ category |-> "70% AI Replaceable - Transactional Work",
       automation_potential |-> 70,
       keywords |-> <<
         <<"a","c","q","u","i","s","i","t","i","o","n">>,  \* 'acquisition'
         <<"m","e","r","g","e","r">>,  \* 'merger'
         <<"p","u","r","c","h","a","s","e">>,  \* 'purchase'
         <<"s","a","l","e">>,  \* 'sale'
         <<"t","r","a","n","s","a","c","t","i","o","n">>,  \* 'transaction'
         <<"f","i","n","a","n","c","i","n","g">>,  \* 'financing'
         <<"i","n","v","e","s","t","m","e","n","t">>,  \* 'investment'
         <<"f","u","n","d">>,  \* 'fund'
         <<"s","e","c","u","r","i","t","i","e","s">>,  \* 'securities'
         <<"l","e","a","s","e">>,  \* 'lease'
         <<"r","e","a","l"," ","e","s","t","a","t","e">>,  \* 'real estate'
         <<"p","r","o","p","e","r","t","y">>   \* 'property'
       >> ],
     [ category |-> "70% AI Replaceable - IP & Regulatory",
       automation_potential |-> 70,
       keywords |-> <<
         <<"p","a","t","e","n","t">>,  \* 'patent'
         <<"t","r","a","d","e","m","a","r","k">>,  \* 'trademark'
         <<"c","o","p","y","r","i","g","h","t">>,  \* 'copyright'
         <<"i","n","t","e","l","l","e","c","t","u","a","l"," ","p","r","o","p","e","r","t","y">>,  \* 'intellectual property'
         <<"r","e","g","u","l","a","t","o","r","y">>,  \* 'regulatory'
         <<"c","o","m","p","l","i","a","n","c","e">>,  \* 'compliance'
         <<"p","e","r","m","i","t">>,  \* 'permit'
         <<"l","i","c","e","n","s","e">>,  \* 'license'
         <<"i","m","m","i","g","r","a","t","i","o","n">>,  \* 'immigration'
         <<"v","i","s","a">>   \* 'visa'
       >> ],
     [ category |-> "30% AI Replaceable - Litigation & Complex Matters",
       automation_potential |-> 30,
       keywords |-> <<
         <<" ","v"," ">>,  \* ' v '
         <<" ","v","."," ">>,  \* ' v. '
         <<" ","v","s"," ">>,  \* ' vs '
         <<" ","v","s","."," ">>,  \* ' vs. '
         <<"l","i","t","i","g","a","t","i","o","n">>,  \* 'litigation'
         <<"l","a","w","s","u","i","t">>,  \* 'lawsuit'
         <<"d","i","s","p","u","t","e">>,  \* 'dispute'
         <<"a","r","b","i","t","r","a","t","i","o","n">>,  \* 'arbitration'
         <<"t","r","i","a","l">>,  \* 'trial'
         <<"c","o","u","r","t">>,  \* 'court'
         <<"m","o","t","i","o","n">>,  \* 'motion'
         <<"d","i","s","c","o","v","e","r","y">>,  \* 'discovery'
         <<"b","a","n","k","r","u","p","t","c","y">>,  \* 'bankruptcy'
         <<"r","e","c","e","i","v","e","r">>,  \* 'receiver'
         <<"s","e","t","t","l","e","m","e","n","t">>   \* 'settlement'
       >> ],
     [ category |-> "30% AI Replaceable - Employment & Family Law",
       automation_potential |-> 30,
       keywords |-> <<
         <<"e","m","p","l","o","y","m","e","n","t">>,  \* 'employment'
         <<"h","r"," ">>,  \* 'hr '
         <<"l","a","b","o","r">>,  \* 'labor'
         <<"t","e","r","m","i","n","a","t","i","o","n">>,  \* 'termination'
         <<"d","i","v","o","r","c","e">>,  \* 'divorce'
         <<"d","i","s","s","o","l","u","t","i","o","n">>,  \* 'dissolution'
         <<"c","u","s","t","o","d","y">>,  \* 'custody'
         <<"f","a","m","i","l","y"," ","l","a","w">>,  \* 'family law'
         <<"t","a","x">>   \* 'tax'
       >> ],
     [ category |-> "0% AI Replaceable - Internal & Strategic",
       automation_potential |-> 0,
       keywords |-> <<
         <<"i","n","t","e","r","n","a","l"," ","t","i","m","e">>,  \* 'internal time'
         <<"v","a","c","a","t","i","o","n">>,  \* 'vacation'
         <<"p","t","o">>,  \* 'pto'
         <<"h","o","l","i","d","a","y">>,  \* 'holiday'
         <<"t","r","a","i","n","i","n","g">>,  \* 'training'
         <<"b","u","s","i","n","e","s","s"," ","d","e","v","e","l","o","p","m","e","n","t">>,  \* 'business development'
         <<"m","a","r","k","e","t","i","n","g">>,  \* 'marketing'
         <<"a","d","m","i","n">>   \* 'admin'
       >> ] >>

\* TASK_LEVEL_AUTOMATION (src/main.py:297-316), in declaration order.
TASK_LEVEL_AUTOMATION ==
  << [ category |-> "Document-Review-Standard",
       automation_potential |-> 95,
       keywords |-> <<
         <<"r","e","v","i","e","w"," ","a","g","r","e","e","m","e","n","t">>,  \* 'review agreement'
         <<"r","e","v","i","e","w"," ","c","o","n","t","r","a","c","t">>,  \* 'review contract'
         <<"r","e","v","i","e","w"," ","a","n","d"," ","r","e","v","i","s","e">>,  \* 'review and revise'
         <<"r","e","v","i","e","w"," ","d","r","a","f","t">>,  \* 'review draft'
         <<"r","e","v","i","e","w"," ","s","t","a","n","d","a","r","d">>,  \* 'review standard'
         <<"r","e","v","i","e","w"," ","f","o","r","m">>,  \* 'review form'
         <<"r","e","v","i","e","w"," ","t","e","m","p","l","a","t","e">>,  \* 'review template'
         <<"r","e","v","i","e","w"," ","n","d","a">>,  \* 'review nda'
         <<"r","e","v","i","e","w"," ","m","s","a">>,  \* 'review msa'
         <<"r","e","v","i","e","w"," ","a","m","e","n","d","m","e","n","t">>,  \* 'review amendment'
         <<"r","e","v","i","e","w"," ","l","e","a","s","e">>   \* 'review lease'
       >> ],
     [ category |-> "Email-Status-Updates",
       automation_potential |-> 92,
       keywords |-> <<
         <<"e","m","a","i","l"," ","r","e","g","a","r","d","i","n","g"," ","s","t","a","t","u","s">>,  \* 'email regarding status'
         <<"e","m","a","i","l"," ","c","o","r","r","e","s","p","o","n","d","e","n","c","e"," ","r","e","g","a","r","d","i","n","g">>,  \* 'email correspondence regarding'
         <<"s","t","a","t","u","s"," ","u","p","d","a","t","e">>,  \* 'status update'
         <<"f","o","l","l","o","w"," ","u","p"," ","e","m","a","i","l">>,  \* 'follow up email'
         <<"e","x","c","h","a","n","g","e"," ","e","m","a","i","l","s">>,  \* 'exchange emails'
         <<"e","m","a","i","l"," ","t","o"," ","c","l","i","e","n","t"," ","r","e","g","a","r","d","i","n","g"," ","s","t","a","t","u","s">>   \* 'email to client regarding status'
       >> ],
     [ category |-> "Document-Drafting-Standard",
       automation_potential |-> 93,
       keywords |-> <<
         <<"d","r","a","f","t"," ","a","m","e","n","d","m","e","n","t">>,  \* 'draft amendment'
         <<"d","r","a","f","t"," ","a","d","d","e","n","d","u","m">>,  \* 'draft addendum'
         <<"d","r","a","f","t"," ","s","t","a","n","d","a","r","d">>,  \* 'draft standard'
         <<"d","r","a","f","t"," ","f","o","r","m">>,  \* 'draft form'
         <<"d","r","a","f","t"," ","c","e","r","t","i","f","i","c","a","t","e">>,  \* 'draft certificate'
         <<"d","r","a","f","t"," ","n","o","t","i","c","e">>,  \* 'draft notice'
         <<"d","r","a","f","t"," ","l","e","t","t","e","r"," ","a","g","r","e","e","m","e","n","t">>,  \* 'draft letter agreement'
         <<"p","r","e","p","a","r","e"," ","d","r","a","f","t"," ","a","m","e","n","d","m","e","n","t">>   \* 'prepare draft amendment'
       >> ],
     [ category |-> "Research-Straightforward",
       automation_potential |-> 88,
       keywords |-> <<
         <<"r","e","s","e","a","r","c","h"," ","c","a","s","e"," ","l","a","w">>,  \* 'research case law'
         <<"r","e","s","e","a","r","c","h"," ","s","t","a","t","u","t","e">>,  \* 'research statute'
         <<"r","e","s","e","a","r","c","h"," ","r","e","g","u","l","a","t","i","o","n">>,  \* 'research regulation'
         <<"r","e","s","e","a","r","c","h"," ","p","r","e","c","e","d","e","n","t">>,  \* 'research precedent'
         <<"l","e","g","a","l"," ","r","e","s","e","a","r","c","h"," ","r","e","g","a","r","d","i","n","g">>   \* 'legal research regarding'
       >> ],
     [ category |-> "Form-Completion",
       automation_potential |-> 96,
       keywords |-> <<
         <<"c","o","m","p","l","e","t","e"," ","f","o","r","m">>,  \* 'complete form'
         <<"f","i","l","l"," ","o","u","t">>,  \* 'fill out'
         <<"p","r","e","p","a","r","e"," ","f","i","l","i","n","g">>,  \* 'prepare filing'
         <<"f","i","l","e"," ","n","o","t","i","c","e">>,  \* 'file notice'
         <<"f","i","l","e"," ","c","e","r","t","i","f","i","c","a","t","e">>,  \* 'file certificate'
         <<"s","u","b","m","i","t"," ","f","o","r","m">>   \* 'submit form'
       >> ],
     [ category |-> "Document-Analysis",
       automation_potential |-> 85,
       keywords |-> <<
         <<"r","e","v","i","e","w"," ","a","n","d"," ","a","n","a","l","y","z","e">>,  \* 'review and analyze'
         <<"a","n","a","l","y","z","e"," ","a","g","r","e","e","m","e","n","t">>,  \* 'analyze agreement'
         <<"a","n","a","l","y","z","e"," ","c","o","n","t","r","a","c","t">>,  \* 'analyze contract'
         <<"a","n","a","l","y","z","e"," ","t","e","r","m","s">>,  \* 'analyze terms'
         <<"a","n","a","l","y","z","e"," ","p","r","o","v","i","s","i","o","n">>,  \* 'analyze provision'
         <<"r","e","v","i","e","w"," ","f","o","r"," ","c","o","m","p","l","i","a","n","c","e">>,  \* 'review for compliance'
         <<"a","n","a","l","y","z","e"," ","d","r","a","f","t">>   \* 'analyze draft'
       >> ],
     [ category |-> "Due-Diligence-Review",
       automation_potential |-> 82,
       keywords |-> <<
         <<"d","u","e"," ","d","i","l","i","g","e","n","c","e">>,  \* 'due diligence'
         <<"d","d"," ","r","e","v","i","e","w">>,  \* 'dd review'
         <<"r","e","v","i","e","w"," ","d","u","e"," ","d","i","l","i","g","e","n","c","e">>,  \* 'review due diligence'
         <<"d","i","l","i","g","e","n","c","e"," ","m","a","t","e","r","i","a","l","s">>,  \* 'diligence materials'
         <<"d","a","t","a"," ","r","o","o","m"," ","r","e","v","i","e","w">>   \* 'data room review'
       >> ],
     [ category |-> "Discovery-Review",
       automation_potential |-> 87,
       keywords |-> <<
         <<"r","e","v","i","e","w"," ","d","i","s","c","o","v","e","r","y">>,  \* 'review discovery'
         <<"r","e","v","i","e","w"," ","p","r","o","d","u","c","t","i","o","n">>,  \* 'review production'
         <<"r","e","v","i","e","w"," ","i","n","t","e","r","r","o","g","a","t","o","r">>,  \* 'review interrogator'
         <<"r","e","v","i","e","w"," ","r","e","q","u","e","s","t"," ","f","o","r"," ","p","r","o","d","u","c","t","i","o","n">>,  \* 'review request for production'
         <<"d","i","s","c","o","v","e","r","y"," ","r","e","s","p","o","n","s","e">>,  \* 'discovery response'
         <<"r","e","s","p","o","n","d"," ","t","o"," ","d","i","s","c","o","v","e","r","y">>   \* 'respond to discovery'
       >> ],
     [ category |-> "Clause-Extraction",
       automation_potential |-> 90,
       keywords |-> <<
         <<"e","x","t","r","a","c","t"," ","p","r","o","v","i","s","i","o","n">>,  \* 'extract provision'
         <<"i","d","e","n","t","i","f","y"," ","c","l","a","u","s","e">>,  \* 'identify clause'
         <<"l","o","c","a","t","e"," ","l","a","n","g","u","a","g","e">>,  \* 'locate language'
         <<"f","i","n","d"," ","p","r","o","v","i","s","i","o","n">>,  \* 'find provision'
         <<"p","u","l","l"," ","c","l","a","u","s","e">>,  \* 'pull clause'
         <<"s","u","m","m","a","r","i","z","e"," ","t","e","r","m","s">>   \* 'summarize terms'
       >> ],
     [ category |-> "Drafting-Complex",
       automation_potential |-> 65,
       keywords |-> <<
         <<"d","r","a","f","t"," ","p","u","r","c","h","a","s","e"," ","a","g","r","e","e","m","e","n","t">>,  \* 'draft purchase agreement'
         <<"d","r","a","f","t"," ","p","s","a">>,  \* 'draft psa'
         <<"d","r","a","f","t"," ","m","e","r","g","e","r"," ","a","g","r","e","e","m","e","n","t">>,  \* 'draft merger agreement'
         <<"d","r","a","f","t"," ","c","o","m","p","l","e","x">>,  \* 'draft complex'
         <<"d","r","a","f","t"," ","f","i","n","a","n","c","i","n","g">>,  \* 'draft financing'
         <<"d","r","a","f","t"," ","l","o","a","n">>,  \* 'draft loan'
         <<"d","r","a","f","t"," ","s","e","t","t","l","e","m","e","n","t">>   \* 'draft settlement'
       >> ],
     [ category |-> "Negotiation-Support",
       automation_potential |-> 60,
       keywords |-> <<
         <<"r","e","v","i","s","e"," ","p","e","r"," ","c","o","m","m","e","n","t","s">>,  \* 'revise per comments'
         <<"a","d","d","r","e","s","s"," ","c","o","m","m","e","n","t","s">>,  \* 'address comments'
         <<"i","n","c","o","r","p","o","r","a","t","e"," ","r","e","v","i","s","i","o","n","s">>,  \* 'incorporate revisions'
         <<"r","e","v","i","s","e"," ","b","a","s","e","d"," ","o","n">>,  \* 'revise based on'
         <<"r","e","s","p","o","n","d"," ","t","o"," ","c","o","m","m","e","n","t","s">>,  \* 'respond to comments'
         <<"c","o","u","n","t","e","r"," ","p","r","o","p","o","s","a","l">>   \* 'counter proposal'
       >> ],
     [ category |-> "Legal-Memos",
       automation_potential |-> 55,
       keywords |-> <<
         <<"d","r","a","f","t"," ","m","e","m","o">>,  \* 'draft memo'
         <<"m","e","m","o","r","a","n","d","u","m">>,  \* 'memorandum'
         <<"l","e","g","a","l"," ","o","p","i","n","i","o","n">>,  \* 'legal opinion'
         <<"p","r","e","p","a","r","e"," ","m","e","m","o">>,  \* 'prepare memo'
         <<"d","r","a","f","t"," ","a","n","a","l","y","s","i","s">>,  \* 'draft analysis'
         <<"m","e","m","o"," ","r","e","g","a","r","d","i","n","g">>   \* 'memo regarding'
       >> ],
     [ category |-> "Client-Calls",
       automation_potential |-> 45,
       keywords |-> <<
         <<"c","a","l","l"," ","w","i","t","h"," ","c","l","i","e","n","t">>,  \* 'call with client'
         <<"t","e","l","e","p","h","o","n","e"," ","c","o","n","f","e","r","e","n","c","e"," ","w","i","t","h">>,  \* 'telephone conference with'
         <<"c","o","n","f","e","r","e","n","c","e"," ","c","a","l","l">>,  \* 'conference call'
         <<"c","l","i","e","n","t"," ","m","e","e","t","i","n","g">>,  \* 'client meeting'
         <<"d","i","s","c","u","s","s"," ","w","i","t","h"," ","c","l","i","e","n","t">>,  \* 'discuss with client'
         <<"c","a","l","l"," ","r","e","g","a","r","d","i","n","g">>,  \* 'call regarding'
         <<"p","h","o","n","e"," ","c","a","l","l">>   \* 'phone call'
       >> ],
     [ category |-> "Court-Appearances",
       automation_potential |-> 30,
       keywords |-> <<
         <<"c","o","u","r","t"," ","a","p","p","e","a","r","a","n","c","e">>,  \* 'court appearance'
         <<"a","p","p","e","a","r"," ","i","n"," ","c","o","u","r","t">>,  \* 'appear in court'
         <<"a","t","t","e","n","d"," ","h","e","a","r","i","n","g">>,  \* 'attend hearing'
         <<"o","r","a","l"," ","a","r","g","u","m","e","n","t">>,  \* 'oral argument'
         <<"t","r","i","a","l">>,  \* 'trial'
         <<"d","e","p","o","s","i","t","i","o","n">>,  \* 'deposition'
         <<"a","t","t","e","n","d"," ","c","o","n","f","e","r","e","n","c","e">>   \* 'attend conference'
       >> ],
     [ category |-> "Strategic-Advice",
       automation_potential |-> 35,
       keywords |-> <<
         <<"a","d","v","i","s","e"," ","r","e","g","a","r","d","i","n","g">>,  \* 'advise regarding'
         <<"c","o","u","n","s","e","l"," ","r","e","g","a","r","d","i","n","g">>,  \* 'counsel regarding'
         <<"d","i","s","c","u","s","s"," ","s","t","r","a","t","e","g","y">>,  \* 'discuss strategy'
         <<"s","t","r","a","t","e","g","i","c"," ","a","d","v","i","c","e">>,  \* 'strategic advice'
         <<"r","e","c","o","m","m","e","n","d","a","t","i","o","n"," ","r","e","g","a","r","d","i","n","g">>,  \* 'recommendation regarding'
         <<"c","o","n","s","u","l","t"," ","o","n">>   \* 'consult on'
       >> ],
     [ category |-> "Negotiations",
       automation_potential |-> 25,
       keywords |-> <<
         <<"n","e","g","o","t","i","a","t","e">>,  \* 'negotiate'
         <<"n","e","g","o","t","i","a","t","i","o","n">>,  \* 'negotiation'
         <<"n","e","g","o","t","i","a","t","i","n","g">>,  \* 'negotiating'
         <<"n","e","g","o","t","i","a","t","e"," ","t","e","r","m","s">>,  \* 'negotiate terms'
         <<"n","e","g","o","t","i","a","t","e"," ","w","i","t","h">>,  \* 'negotiate with'
         <<"s","e","t","t","l","e","m","e","n","t"," ","d","i","s","c","u","s","s","i","o","n">>   \* 'settlement discussion'
       >> ],
     [ category |-> "Internal-Admin",
       automation_potential |-> 10,
       keywords |-> <<
         <<"i","n","t","e","r","n","a","l">>,  \* 'internal'
         <<"a","d","m","i","n","i","s","t","r","a","t","i","v","e">>,  \* 'administrative'
         <<"f","i","r","m"," ","m","e","e","t","i","n","g">>,  \* 'firm meeting'
         <<"t","r","a","i","n","i","n","g">>,  \* 'training'
         <<"b","u","s","i","n","e","s","s"," ","d","e","v","e","l","o","p","m","e","n","t">>,  \* 'business development'
         <<"m","a","r","k","e","t","i","n","g">>,  \* 'marketing'
         <<"t","i","m","e"," ","e","n","t","r","y">>,  \* 'time entry'
         <<"b","i","l","l","i","n","g">>   \* 'billing'
       >> ],
     [ category |-> "General-Communication",
       automation_potential |-> 50,
       keywords |-> <<
         <<"e","m","a","i","l">>,  \* 'email'
         <<"c","o","r","r","e","s","p","o","n","d","e","n","c","e">>,  \* 'correspondence'
         <<"c","o","m","m","u","n","i","c","a","t","e">>,  \* 'communicate'
         <<"d","i","s","c","u","s","s">>,  \* 'discuss'
         <<"e","x","c","h","a","n","g","e">>,  \* 'exchange'
         <<"s","p","e","a","k"," ","w","i","t","h">>,  \* 'speak with'
         <<"f","o","l","l","o","w"," ","u","p">>   \* 'follow up'
       >> ] >>

\* ---------------------------------------------------------------------------
\* Python / pandas primitives used by the classifiers
\* ---------------------------------------------------------------------------

\* pd.isna(x)
IsNa(x) == x = None

UpperChars == <<"A","B","C","D","E","F","G","H","I","J","K","L","M","N","O","P","Q","R","S","T","U","V","W","X","Y","Z">>
LowerChars == <<"a","b","c","d","e","f","g","h","i","j","k","l","m","n","o","p","q","r","s","t","u","v","w","x","y","z">>

\* Variant: the character is kept as written.
LowerCharKept(c) == c

\* one character of str.lower()
LowerChar(c) ==
  IF \E i \in 1..26 : UpperChars[i] = c
    THEN LowerChars[CHOOSE i \in 1..26 : UpperChars[i] = c]
    ELSE c

\* str.lower()
RECURSIVE lower(_)
lower(s) == IF s = <<>> THEN <<>> ELSE <<LowerChar(Head(s))>> \o lower(Tail(s))

\* `keyword in text` for Python strings: scan for the first position where
\* the keyword starts.
RECURSIVE FindFrom(_, _, _)
FindFrom(keyword, s, p) ==
  IF p + Len(keyword) - 1 > Len(s) THEN FALSE
  ELSE IF s[p] = keyword[1] /\ SubSeq(s, p, p + Len(keyword) - 1) = keyword THEN TRUE
  ELSE FindFrom(keyword, s, p + 1)

KeywordIn(keyword, s) == FindFrom(keyword, s, 1)

\* sum(1 for keyword in info['keywords'] if keyword in s)
RECURSIVE SumMatches(_, _, _)
SumMatches(keywords, s, i) ==
  IF i > Len(keywords) THEN 0
  ELSE (IF KeywordIn(keywords[i], s) THEN 1 ELSE 0) + SumMatches(keywords, s, i + 1)

\* Variant: every occurrence of a keyword counts, not every keyword.
RECURSIVE CountFrom(_, _, _)
CountFrom(keyword, s, p) ==
  IF p + Len(keyword) - 1 > Len(s) THEN 0
  ELSE (IF SubSeq(s, p, p + Len(keyword) - 1) = keyword THEN 1 ELSE 0) + CountFrom(keyword, s, p + 1)

RECURSIVE SumOccurrences(_, _, _)
SumOccurrences(keywords, s, i) ==
  IF i > Len(keywords) THEN 0
  ELSE CountFrom(keywords[i], s, 1) + SumOccurrences(keywords, s, i + 1)

OccurrenceScore(keywords, s) == SumOccurrences(keywords, s, 1)

KeywordScore(keywords, s) == SumMatches(keywords, s, 1)

\* scores = {}
EmptyScores == <<>>

\* The scoring loop: for category, info in TABLE.items(): (skip excluded);
\* score = ...; if score > 0: scores[category] = score.  The dict keeps
\* insertion order, which is the table's declaration order.
RECURSIVE ScoreLoop(_, _, _, _, _)
ScoreLoop(table, s, excluded, i, acc) ==
  IF i > Len(table) THEN acc
  ELSE IF table[i].category \in excluded THEN ScoreLoop(table, s, excluded, i + 1, acc)
  ELSE LET score == KeywordScore(table[i].keywords, s)
       IN  ScoreLoop(table, s, excluded, i + 1,
                     IF score > 0
                       THEN Append(acc, [category |-> table[i].category, score |-> score])
                       ELSE acc)

ScoreCategories(table, s, excluded) == ScoreLoop(table, s, excluded, 1, EmptyScores)

\* max(scores, key=scores.get): the first key, in iteration order, whose
\* value is not exceeded; a later key replaces the best only when strictly
\* greater.
\* Variant: a later key replaces the best also on an equal score.
RECURSIVE MaxLoopLast(_, _, _)
MaxLoopLast(sc, i, best) ==
  IF i > Len(sc) THEN best
  ELSE MaxLoopLast(sc, i + 1, IF sc[i].score >= sc[best].score THEN i ELSE best)

RECURSIVE MaxLoop(_, _, _)
MaxLoop(sc, i, best) ==
  IF i > Len(sc) THEN best
  ELSE MaxLoop(sc, i + 1, IF sc[i].score > sc[best].score THEN i ELSE best)

\* Variant: the key inserted last.
MaxKeyLastInserted(sc) == sc[Len(sc)].category

MaxKey(sc) == sc[MaxLoop(sc, 2, 1)].category

\* TABLE[best_category]['automation_potential']
PotentialOf(table, category) ==
  table[CHOOSE i \in 1..Len(table) : table[i].category = category].automation_potential

\* Values returned when the text is missing or no category scores.
LEGALBENCH_DEFAULT == <<"General-Matters", 65>>
\* Variant: the tiered taxonomy falls back to the broad taxonomy's default.
OLI_DEFAULT_UNIFIED == <<"General-Matters", 65>>
OLI_DEFAULT == <<"Unclassified", 0>>
TASK_DEFAULT == <<"General-Communication", 50>>

\* The phrases checked before scoring in classify_matter_oli, and its result.
OLI_OVERRIDE_CATEGORY == "0% AI Replaceable - Internal & Strategic"
INTERNAL_TIME == <<"i","n","t","e","r","n","a","l"," ","t","i","m","e">>
VACATION == <<"v","a","c","a","t","i","o","n">>
\* Variant: no check before scoring.
OliOverrideOmitted(s) == FALSE

\* 'internal time' in matter_lower or 'vacation' in matter_lower
OliOverride(s) == KeywordIn(INTERNAL_TIME, s) \/ KeywordIn(VACATION, s)
OLI_OVERRIDE_RESULT == <<OLI_OVERRIDE_CATEGORY, 0>>

\* A classifier call is described by its returned pair and the value of its
\* local `scores` at the return (empty when the return precedes the loop).
Frame(ret, sc) == [ret |-> ret, scores |-> sc]

RunBest(table, sc, default) ==
  IF sc # <<>>
    THEN LET best_category == MaxKey(sc)
         IN  Frame(<<best_category, PotentialOf(table, best_category)>>, sc)
    ELSE Frame(default, sc)

run_classify_task_description(description) ==
  IF IsNa(description) THEN Frame(TASK_DEFAULT, <<>>)
  ELSE LET desc_lower == lower(Val(description))
       IN  RunBest(TASK_LEVEL_AUTOMATION,
                   ScoreCategories(TASK_LEVEL_AUTOMATION, desc_lower, {}),
                   TASK_DEFAULT)

run_classify_matter_legalbench(matter_name) ==
  IF IsNa(matter_name) THEN Frame(LEGALBENCH_DEFAULT, <<>>)
  ELSE LET matter_lower == lower(Val(matter_name))
       IN  RunBest(LEGALBENCH_TASKS,
                   ScoreCategories(LEGALBENCH_TASKS, matter_lower, {}),
                   LEGALBENCH_DEFAULT)

run_classify_matter_oli(matter_name) ==
  IF IsNa(matter_name) THEN Frame(OLI_DEFAULT, <<>>)
  ELSE LET matter_lower == lower(Val(matter_name))
       IN  IF OliOverride(matter_lower) THEN Frame(OLI_OVERRIDE_RESULT, <<>>)
           ELSE RunBest(RIMON_OLI_BENCHMARK,
                        ScoreCategories(RIMON_OLI_BENCHMARK, matter_lower, {OLI_OVERRIDE_CATEGORY}),
                        OLI_DEFAULT)

classify_task_description(description) == run_classify_task_description(description).ret
classify_matter_legalbench(matter_name) == run_classify_matter_legalbench(matter_name).ret
classify_matter_oli(matter_name) == run_classify_matter_oli(matter_name).ret

\* ---------------------------------------------------------------------------
\* The dashboard run: load_data and main()
\* ---------------------------------------------------------------------------

\* Matter names of the time-entry export used as inputs.
ACQUISITION_AGREEMENT_REVIEW == <<"A","c","q","u","i","s","i","t","i","o","n"," ","A","g","r","e","e","m","e","n","t"," ","R","e","v","i","e","w">>
INTERNAL_TIME_TRAINING == <<"I","n","t","e","r","n","a","l"," ","T","i","m","e"," ","-"," ","T","r","a","i","n","i","n","g">>
GENERAL_CORPORATE_MATTERS == <<"G","e","n","e","r","a","l"," ","C","o","r","p","o","r","a","t","e"," ","M","a","t","t","e","r","s">>
LEASE == <<"l","e","a","s","e">>
TRUST == <<"t","r","u","s","t">>

\* df['Matter Name'].fillna('Unknown')
UNKNOWN == <<"U","n","k","n","o","w","n">>

\* The rows a time-entry export is made of.  date is the parsed
\* <<year, month>> of the 'Date of Work' cell, None when the cell is empty or
\* does not match %m/%d/%Y; hours is the numeric value of the 'Billable
\* Hours' cell in thousandths, None when the cell is empty or not numeric.
CsvRows ==
  { [date |-> Some(<<2025, 1>>), hours |-> Some(10000), rate |-> Some("Hourly"),
     matter |-> Some(ACQUISITION_AGREEMENT_REVIEW), user |-> Some("alice")],
    [date |-> Some(<<2025, 3>>), hours |-> Some(12500), rate |-> Some("Flat Fee"),
     matter |-> Some(LEASE), user |-> Some("bob")],
    [date |-> None, hours |-> Some(2000), rate |-> Some("Hourly"),
     matter |-> Some(INTERNAL_TIME_TRAINING), user |-> Some("alice")],
    [date |-> Some(<<2025, 3>>), hours |-> Some(4000), rate |-> Some("Hourly"),
     matter |-> Some(TRUST), user |-> None],
    [date |-> Some(<<2024, 12>>), hours |-> None, rate |-> None,
     matter |-> None, user |-> Some("bob")],
    [date |-> Some(<<2025, 1>>), hours |-> Some(0 - 3000), rate |-> Some("flat fee"),
     matter |-> Some(GENERAL_CORPORATE_MATTERS), user |-> Some("alice")],
    [date |-> Some(<<2025, 12>>), hours |-> Some(1250000), rate |-> Some("Hourly"),
     matter |-> Some(GENERAL_CORPORATE_MATTERS), user |-> Some("bob")] }

MaxEntries == 2

\* The exports of at most n rows.
RECURSIVE Exports(_)
Exports(n) ==
  IF n = 0 THEN { <<>> }
  ELSE LET shorter == Exports(n - 1)
       IN  shorter \cup { Append(e, r) : e \in { x \in shorter : Len(x) = n - 1 }, r \in CsvRows }

\* Date.strftime('%B')
MONTH_NAMES ==
  <<"January", "February", "March", "April", "May", "June", "July",
    "August", "September", "October", "November", "December">>

\* Series.fillna(value) on one cell
fillna(cell, value) == IF cell = None THEN Some(value) ELSE cell

\* One row of load_data: the hours coerced to a number with NaN replaced by
\* 0, the date parts (NaN for an unparsed date), the matter name filled.
\* Columns that main() adds later are None until they are assigned.
LoadRow(c) ==
  [ Date_of_Work |-> c.date,
    Billable_Hours |-> fillna(c.hours, 0),
    Year |-> IF c.date = None THEN None ELSE Some(Val(c.date)[1]),
    Month |-> IF c.date = None THEN None ELSE Some(Val(c.date)[2]),
    Month_Name |-> IF c.date = None THEN None ELSE Some(MONTH_NAMES[Val(c.date)[2]]),
    Quarter |-> IF c.date = None THEN None ELSE Some(((Val(c.date)[2] - 1) \div 3) + 1),
    Matter_Name |-> fillna(c.matter, UNKNOWN),
    Rate_Type |-> c.rate,
    User_Name |-> c.user,
    Original_Hours |-> None,
    Task_Category |-> None,
    Automation_Potential |-> None,
    Automatable_Hours |-> None,
    Manual_Hours |-> None,
    OLI_Category |-> None,
    OLI_Automation_Potential |-> None,
    OLI_Automatable_Hours |-> None,
    OLI_Manual_Hours |-> None ]

load_data(export) == [i \in 1..Len(export) |-> LoadRow(export[i])]

\* 1.0 hour, in thousandths
FLAT_FEE_HOURS == 1000

\* Variant: the copy is taken after the override.
FlatFeeRowCopyAfter(r) ==
  LET overridden == IF r.Rate_Type = Some("Flat Fee")
                      THEN [r EXCEPT !.Billable_Hours = Some(FLAT_FEE_HOURS)]
                      ELSE r
  IN  [overridden EXCEPT !.Original_Hours = overridden.Billable_Hours]

\* df['Original_Hours'] = df['Billable Hours'].copy()
\* df.loc[df['Rate Type'] == 'Flat Fee', 'Billable Hours'] = 1.0
FlatFeeRow(r) ==
  LET kept == [r EXCEPT !.Original_Hours = r.Billable_Hours]
  IN  IF kept.Rate_Type = Some("Flat Fee")
        THEN [kept EXCEPT !.Billable_Hours = Some(FLAT_FEE_HOURS)]
        ELSE kept

\* df[column].dropna().unique() as a set
Unique(rows, column) ==
  { Val(rows[i][column]) : i \in { j \in 1..Len(rows) : rows[j][column] # None } }

\* Series.isin(values): NaN is in no selection
isin(cell, values) == cell # None /\ Val(cell) \in values

\* Variant: the potential multiplies the hours as a percentage figure.
TimesPercentage(hours, potential) == hours * potential

\* hours (thousandths) times a potential (hundredths), in thousandths
Times(hours, potential) == (hours * potential) \div 100

\* Variant: the potential itself, not the automatable hours, is taken off
\* the hours (0.82 is 820 thousandths).
HoursSplitByPotential(hours, potential) ==
  [automatable |-> Times(hours, potential),
   manual |-> hours - potential * 10]

\* Billable Hours * potential and Billable Hours - automatable
HoursSplit(hours, potential) ==
  [automatable |-> Times(hours, potential),
   manual |-> hours - Times(hours, potential)]

\* Task_Category, Automation_Potential from classify_matter_legalbench, then
\* Automatable_Hours and Manual_Hours
WithLegalbench(r, c, h) ==
  [r EXCEPT !.Task_Category = Some(c[1]),
            !.Automation_Potential = Some(c[2]),
            !.Automatable_Hours = Some(h.automatable),
            !.Manual_Hours = Some(h.manual)]

LegalbenchRow(r) ==
  LET c == classify_matter_legalbench(r.Matter_Name)
  IN  WithLegalbench(r, c, HoursSplit(Val(r.Billable_Hours), c[2]))

\* Variant: the hours of the tiered taxonomy are written to the columns of
\* the broad one.
WithOliSharedHours(r, c, h) ==
  [r EXCEPT !.OLI_Category = Some(c[1]),
            !.OLI_Automation_Potential = Some(c[2]),
            !.Automatable_Hours = Some(h.automatable),
            !.Manual_Hours = Some(h.manual)]

\* OLI_Category, OLI_Automation_Potential from classify_matter_oli, then
\* OLI_Automatable_Hours and OLI_Manual_Hours
WithOli(r, c, h) ==
  [r EXCEPT !.OLI_Category = Some(c[1]),
            !.OLI_Automation_Potential = Some(c[2]),
            !.OLI_Automatable_Hours = Some(h.automatable),
            !.OLI_Manual_Hours = Some(h.manual)]

OliRow(r) ==
  LET c == classify_matter_oli(r.Matter_Name)
  IN  WithOli(r, c, HoursSplit(Val(r.Billable_Hours), c[2]))

\* Series.sum()
RECURSIVE SeqSum(_)
SeqSum(s) == IF s = <<>> THEN 0 ELSE Head(s) + SeqSum(Tail(s))

\* df[column].sum()
ColumnSum(rows, column) == SeqSum([i \in 1..Len(rows) |-> Val(rows[i][column])])

\* The value of a row for the grouping columns; NaN when any of them is NaN.
RowKey(r, columns) ==
  IF \E j \in 1..Len(columns) : r[columns[j]] = None THEN None
  ELSE Some([j \in 1..Len(columns) |-> Val(r[columns[j]])])

\* DataFrame.groupby(columns): the rows of each key value; a row whose key
\* is NaN belongs to no group (dropna=True is the default).
GroupBy(rows, columns) ==
  [k \in { Val(RowKey(rows[i], columns)) :
             i \in { j \in 1..Len(rows) : RowKey(rows[j], columns) # None } }
     |-> SelectSeq(rows, LAMBDA r : RowKey(r, columns) = Some(k))]

\* .agg({column: 'sum', ...}) for the listed columns
AggSum(groups, columns) ==
  [k \in DOMAIN groups |->
     [c \in { columns[j] : j \in 1..Len(columns) } |-> ColumnSum(groups[k], c)]]

TOP_ROWS == 15

\* .sort_values('Billable Hours', ascending=False).head(15): the groups kept
\* are TOP_ROWS groups with no group of more hours left out; all of them
\* when there are no more than TOP_ROWS.
Top15(agg) ==
  IF Cardinality(DOMAIN agg) <= TOP_ROWS THEN agg
  ELSE LET keep == CHOOSE K \in SUBSET (DOMAIN agg) :
                     /\ Cardinality(K) = TOP_ROWS
                     /\ \A k \in K : \A o \in (DOMAIN agg) \ K :
                          agg[k].Billable_Hours >= agg[o].Billable_Hours
       IN  [k \in keep |-> agg[k]]

\* ---------------------------------------------------------------------------
\* Float arithmetic of the rates, savings and projections
\* ---------------------------------------------------------------------------

Abs(n) == IF n < 0 THEN 0 - n ELSE n
Sign(n) == IF n < 0 THEN 0 - 1 ELSE IF n > 0 THEN 1 ELSE 0

RECURSIVE GCD(_, _)
GCD(a, b) == IF b = 0 THEN a ELSE GCD(b, a % b)

\* The float n / d, in lowest terms with a positive denominator.  A float
\* division by zero does not raise: 0 / 0 is nan (num 0), n / 0 is inf or
\* -inf (num 1 or -1).
Rat(n, d) ==
  IF d = 0 THEN [num |-> Sign(n), den |-> 0]
  ELSE LET g == GCD(Abs(n), Abs(d))
       IN  [num |-> Sign(d) * Sign(n) * (Abs(n) \div g), den |-> Abs(d) \div g]

NAN == Rat(0, 0)

\* An integer as a float
Num(n) == Rat(n, 1)

\* Hours held in thousandths, as a float number of hours
Hours(h) == Rat(h, 1000)

IsFinite(x) == x.den # 0

\* x > 0 (False for nan)
Positive(x) == x.num > 0

\* x + y
RatAdd(x, y) ==
  IF IsFinite(x) /\ IsFinite(y) THEN Rat(x.num * y.den + y.num * x.den, x.den * y.den)
  ELSE IF IsFinite(y) THEN x
  ELSE IF IsFinite(x) \/ x = y THEN y
  ELSE NAN

\* x * y
RatMul(x, y) ==
  IF IsFinite(x) /\ IsFinite(y) THEN Rat(x.num * y.num, x.den * y.den)
  ELSE Rat(Sign(x.num) * Sign(y.num), 0)

\* x - y
RatSub(x, y) == RatAdd(x, RatMul(Num(0 - 1), y))

\* x / y on numpy floats
RatDiv(x, y) ==
  IF IsFinite(x) /\ IsFinite(y) THEN Rat(x.num * y.den, x.den * y.num)
  ELSE IF IsFinite(y) THEN Rat(Sign(x.num) * (IF y.num < 0 THEN 0 - 1 ELSE 1), 0)
  ELSE IF IsFinite(x) /\ y # NAN THEN Num(0)
  ELSE NAN

\* x <= y on finite floats
RatLe(x, y) == x.num * y.den <= y.num * x.den

\* x / y * 100 with no test of y
Percent(x, y) == RatMul(RatDiv(x, y), Num(100))

\* (x / y * 100) if y > 0 else 0
GuardedPercent(x, y) == IF Positive(y) THEN RatMul(RatDiv(x, y), Num(100)) ELSE Num(0)

\* Series.cumsum()
RECURSIVE CumSumLoop(_, _, _)
CumSumLoop(s, i, acc) ==
  IF i > Len(s) THEN <<>>
  ELSE LET a == RatAdd(acc, s[i]) IN <<a>> \o CumSumLoop(s, i + 1, a)

\* Variant: the sum runs from the last row back to the row.
RECURSIVE cumsum_reversed(_)
cumsum_reversed(s) ==
  IF s = <<>> THEN <<>>
  ELSE LET rest == cumsum_reversed(Tail(s))
       IN  <<RatAdd(Head(s), IF rest = <<>> THEN Num(0) ELSE Head(rest))>> \o rest

cumsum(s) == CumSumLoop(s, 1, Num(0))

\* ---------------------------------------------------------------------------
\* TAB 2: top matters
\* ---------------------------------------------------------------------------

UNCLASSIFIED == "Unclassified"

\* matter_analysis['Automation_Rate']
WithAutomationRate(agg) ==
  [k \in DOMAIN agg |->
     [Billable_Hours |-> agg[k].Billable_Hours,
      OLI_Automatable_Hours |-> agg[k].OLI_Automatable_Hours,
      Automation_Rate |-> Percent(Hours(agg[k].OLI_Automatable_Hours),
                                  Hours(agg[k].Billable_Hours))]]

TOP_MATTERS == 20

\* .sort_values('OLI_Automatable_Hours', ascending=False).head(20)
Top20(agg) ==
  IF Cardinality(DOMAIN agg) <= TOP_MATTERS THEN agg
  ELSE LET keep == CHOOSE K \in SUBSET (DOMAIN agg) :
                     /\ Cardinality(K) = TOP_MATTERS
                     /\ \A k \in K : \A o \in (DOMAIN agg) \ K :
                          agg[k].OLI_Automatable_Hours >= agg[o].OLI_Automatable_Hours
       IN  [k \in keep |-> agg[k]]

\* The matters whose tiered category is not 'Unclassified', with their sums
\* and rate
MatterAnalysis(rows) ==
  Top20(WithAutomationRate(
    AggSum(GroupBy(SelectSeq(rows, LAMBDA r : r.OLI_Category # Some(UNCLASSIFIED)),
                   <<"Matter_Name">>),
           <<"Billable_Hours", "OLI_Automatable_Hours">>)))

\* ---------------------------------------------------------------------------
\* TAB 3: cost savings
\* ---------------------------------------------------------------------------

\* The defaults of the 'Average Hourly Rate ($)' input, the 'AI Efficiency
\* Gain (%)' slider and the 'AI Cost per Hour ($)' input
DEFAULT_HOURLY_RATE == 500
DEFAULT_EFFICIENCY_GAIN == 60
DEFAULT_AI_COST == 10

\* Values of the three widgets: the minimum and the default of each
HOURLY_RATES == {100, DEFAULT_HOURLY_RATE}
EFFICIENCY_GAINS == {10, DEFAULT_EFFICIENCY_GAIN}
AI_COSTS == {1, DEFAULT_AI_COST}

\* The settings of the widgets that are entered: the defaults, and the
\* defaults with one widget moved to its minimum.
Settings ==
  { s \in HOURLY_RATES \X EFFICIENCY_GAINS \X AI_COSTS :
      Cardinality({ i \in 1..3 :
        s[i] # <<DEFAULT_HOURLY_RATE, DEFAULT_EFFICIENCY_GAIN, DEFAULT_AI_COST>>[i] }) <= 1 }

\* (net / cost * 100) if cost > 0 else 0
Roi(net, cost) == GuardedPercent(net, cost)

\* hours_saved, labor_saved, ai_cost, net_savings and roi of a number of
\* automatable hours
Savings(automatable, efficiency, rate, cost_per_hour) ==
  LET saved == RatMul(automatable, efficiency)
      labor == RatMul(saved, Num(rate))
      cost == RatMul(automatable, Num(cost_per_hour))
  IN  [hours_saved |-> saved, labor_saved |-> labor, ai_cost |-> cost,
       net_savings |-> RatSub(labor, cost), roi |-> Roi(RatSub(labor, cost), cost)]

\* category_savings with Hours_Saved and Cost_Savings
WithCostSavings(agg, efficiency, rate) ==
  [k \in DOMAIN agg |->
     LET saved == RatMul(Hours(agg[k].Automatable_Hours), efficiency)
     IN  [Automatable_Hours |-> agg[k].Automatable_Hours,
          Hours_Saved |-> saved,
          Cost_Savings |-> RatMul(saved, Num(rate))]]

TOP_CATEGORIES == 12

\* .sort_values('Cost_Savings', ascending=False).head(12)
Top12(agg) ==
  IF Cardinality(DOMAIN agg) <= TOP_CATEGORIES THEN agg
  ELSE LET keep == CHOOSE K \in SUBSET (DOMAIN agg) :
                     /\ Cardinality(K) = TOP_CATEGORIES
                     /\ \A k \in K : \A o \in (DOMAIN agg) \ K :
                          RatLe(agg[o].Cost_Savings, agg[k].Cost_Savings)
       IN  [k \in keep |-> agg[k]]

\* <<year, month>> keys in the order of sort_values(['Year', 'Month'])
KeyBefore(a, b) == a[1] < b[1] \/ (a[1] = b[1] /\ a[2] < b[2])

RECURSIVE SortedKeys(_)
SortedKeys(keys) ==
  IF keys = {} THEN <<>>
  ELSE LET first == CHOOSE k \in keys : \A o \in keys \ {k} : KeyBefore(k, o)
       IN  <<first>> \o SortedKeys(keys \ {first})

\* monthly_savings: the sums by (Year, Month) in that order, with
\* Hours_Saved, Monthly_Savings and their running sum
MonthlySavings(rows, efficiency, rate) ==
  LET agg == AggSum(GroupBy(rows, <<"Year", "Month">>), <<"Automatable_Hours">>)
      keys == SortedKeys(DOMAIN agg)
      saved == [i \in 1..Len(keys) |->
                  RatMul(Hours(agg[keys[i]].Automatable_Hours), efficiency)]
      monthly == [i \in 1..Len(keys) |-> RatMul(saved[i], Num(rate))]
      cumulative == cumsum(monthly)
  IN  [i \in 1..Len(keys) |->
         [Year |-> keys[i][1], Month |-> keys[i][2],
          Automatable_Hours |-> agg[keys[i]].Automatable_Hours,
          Hours_Saved |-> saved[i],
          Monthly_Savings |-> monthly[i],
          Cumulative_Savings |-> cumulative[i]]]

\* ---------------------------------------------------------------------------
\* TAB 4: predictions
\* ---------------------------------------------------------------------------

PROJECTION_YEAR == 2025

MONTHS_OF_YEAR == 12

\* Variant: the rows of every selected year are projected.
CurrentDataAnyYear(rows) == rows

\* filtered_df[filtered_df['Year'] == 2025]
CurrentData(rows) == SelectSeq(rows, LAMBDA r : r.Year = Some(PROJECTION_YEAR))

\* current_data['Month'].max()
LatestMonth(rows) ==
  CHOOSE m \in Unique(rows, "Month") : \A o \in Unique(rows, "Month") : o <= m

\* current_data.groupby('Month').agg({... 'sum'})
ActualMonthly(rows) ==
  AggSum(GroupBy(rows, <<"Month">>), <<"Billable_Hours", "Automatable_Hours">>)

\* .mean() of a column of the monthly sums: over the months that have rows
Mean(agg, column) ==
  Rat(SeqSum([m \in 1..MONTHS_OF_YEAR |->
                IF <<m>> \in DOMAIN agg THEN agg[<<m>>][column] ELSE 0]),
      1000 * Cardinality(DOMAIN agg))

\* Variant: the months to come are counted from the number of months with rows.
MonthsRemainingByCount(rows) == MONTHS_OF_YEAR - Cardinality(Unique(rows, "Month"))

\* months_remaining = 12 - months_elapsed
MonthsRemaining(rows) == MONTHS_OF_YEAR - LatestMonth(rows)

\* Variant: the average is added for every month of the year.
ProjectedFullYear(rows, column) ==
  RatAdd(Hours(ColumnSum(rows, column)),
         RatMul(Mean(ActualMonthly(rows), column), Num(MONTHS_OF_YEAR)))

\* current_data[column].sum() + monthly_avg[column] * months_remaining
Projected(rows, column) ==
  RatAdd(Hours(ColumnSum(rows, column)),
         RatMul(Mean(ActualMonthly(rows), column), Num(MonthsRemaining(rows))))

\* 'Actual' if x <= months_elapsed else 'Projected'
MonthType(month, elapsed) ==
  IF month <= elapsed THEN "Actual" ELSE "Projected"

\* all_months.merge(actual_monthly, on='Month', how='left') with the missing
\* sums filled with the monthly averages, and the Type of each month
ProjectionMonths(rows) ==
  LET actual == ActualMonthly(rows)
      elapsed == LatestMonth(rows)
      filled(m, column) ==
        IF <<m>> \in DOMAIN actual THEN Hours(actual[<<m>>][column])
        ELSE Mean(actual, column)
  IN  [m \in 1..MONTHS_OF_YEAR |->
         [Month |-> m,
          Billable_Hours |-> filled(m, "Billable_Hours"),
          Automatable_Hours |-> filled(m, "Automatable_Hours"),
          Type |-> MonthType(m, elapsed)]]

\* projection_df with Monthly_Savings and Cumulative_Savings
ProjectionDf(rows, efficiency, rate) ==
  LET months == ProjectionMonths(rows)
      monthly == [m \in 1..MONTHS_OF_YEAR |->
                    RatMul(RatMul(months[m].Automatable_Hours, efficiency), Num(rate))]
      cumulative == cumsum(monthly)
  IN  [m \in 1..MONTHS_OF_YEAR |->
         [Month |-> months[m].Month,
          Billable_Hours |-> months[m].Billable_Hours,
          Automatable_Hours |-> months[m].Automatable_Hours,
          Type |-> months[m].Type,
          Monthly_Savings |-> monthly[m],
          Cumulative_Savings |-> cumulative[m]]]

\* The scenarios dict, in insertion order; efficiency in hundredths
SCENARIOS ==
  << [Scenario |-> "Conservative (40% efficiency)", efficiency |-> 40],
     [Scenario |-> "Moderate (60% efficiency)", efficiency |-> 60],
     [Scenario |-> "Optimistic (80% efficiency)", efficiency |-> 80] >>

\* One row of scenario_results
ScenarioRow(scenario, automatable, rate, cost_per_hour) ==
  LET s == Savings(automatable, Rat(scenario.efficiency, 100), rate, cost_per_hour)
  IN  [Scenario |-> scenario.Scenario,
       Hours_Saved |-> s.hours_saved,
       Cost_Saved |-> s.labor_saved,
       AI_Cost |-> s.ai_cost,
       Net_Savings |-> s.net_savings,
       ROI |-> s.roi]

NO_DATA_WARNING == "No 2025 data for projections"

\* ---------------------------------------------------------------------------
\* The task-level dataset: check_for_detailed_csv, load_detailed_data, tab 6
\* ---------------------------------------------------------------------------

\* Descriptions quoted by the task-level tab.
EMAIL_REGARDING_STATUS == <<"E","m","a","i","l"," ","r","e","g","a","r","d","i","n","g"," ","s","t","a","t","u","s">>
REVIEW_AND_ANALYZE_AGREEMENT == <<"R","e","v","i","e","w"," ","a","n","d"," ","a","n","a","l","y","z","e"," ","a","g","r","e","e","m","e","n","t">>
TELEPHONE_CONFERENCE_WITH_CLIENT == <<"T","e","l","e","p","h","o","n","e"," ","c","o","n","f","e","r","e","n","c","e"," ","w","i","t","h"," ","c","l","i","e","n","t">>
NEGOTIATE_SETTLEMENT == <<"N","e","g","o","t","i","a","t","e"," ","s","e","t","t","l","e","m","e","n","t">>

\* The paths check_for_detailed_csv tries, in order.
DETAILED_PATHS ==
  <<"./data/matter_description.csv", "matter_description.csv", "./matter_description.csv">>

\* The rows a task-level export is made of: the 'Description' cell, None
\* when empty, and the numeric value of the 'Billable Time' cell in
\* thousandths, None when empty or not numeric.
DetailedRows ==
  { [description |-> Some(EMAIL_REGARDING_STATUS), hours |-> Some(1500)],
    [description |-> Some(NEGOTIATE_SETTLEMENT), hours |-> Some(2000)],
    [description |-> None, hours |-> None] }

MaxTaskEntries == 1

\* The readable task-level exports of at most n rows.
RECURSIVE DetailedExports(_)
DetailedExports(n) ==
  IF n = 0 THEN { <<>> }
  ELSE LET shorter == DetailedExports(n - 1)
       IN  shorter \cup { Append(e, r) : e \in { x \in shorter : Len(x) = n - 1 },
                                          r \in DetailedRows }

\* A file pandas cannot read as a task-level export.
UNREADABLE == [readable |-> FALSE, rows |-> <<>>]

DetailedFiles ==
  { [readable |-> TRUE, rows |-> e] : e \in DetailedExports(MaxTaskEntries) }
    \cup { UNREADABLE }

\* What is found at the three paths: nothing, a file in ./data only, a file
\* in the working directory only (the second and third path name the same
\* file), or a file in ./data and an unreadable one in the working directory.
DataFolders ==
  { [i \in 1..3 |-> None] }
    \cup { [i \in 1..3 |-> IF i = 1 THEN Some(f) ELSE None] : f \in DetailedFiles }
    \cup { [i \in 1..3 |-> IF i = 1 THEN None ELSE Some(f)] : f \in DetailedFiles }
    \cup { [i \in 1..3 |-> IF i = 1 THEN Some(f) ELSE Some(UNREADABLE)] : f \in DetailedFiles }

\* for path in [...]: if os.path.exists(path): return path
RECURSIVE FirstExisting(_, _)
FirstExisting(folder, i) ==
  IF i > Len(DETAILED_PATHS) THEN None
  ELSE IF folder[i] # None THEN Some(DETAILED_PATHS[i])
  ELSE FirstExisting(folder, i + 1)

check_for_detailed_csv(folder) == FirstExisting(folder, 1)

\* the file at a path
FileAt(folder, path) ==
  folder[CHOOSE i \in 1..Len(DETAILED_PATHS) : DETAILED_PATHS[i] = path]

\* Hours: to_numeric(errors='coerce').fillna(0); Description: fillna('Unknown')
DetailedRow(r) ==
  [Description |-> fillna(r.description, UNKNOWN),
   Hours |-> fillna(r.hours, 0)]

\* load_detailed_data(csv_path): the frame, or None when reading raised (no
\* path, no file, or a file that cannot be parsed)
load_detailed_data(folder, csv_path) ==
  IF csv_path = None THEN None
  ELSE LET file == FileAt(folder, Val(csv_path))
       IN  IF file = None \/ ~Val(file).readable THEN None
           ELSE Some([i \in 1..Len(Val(file).rows) |-> DetailedRow(Val(file).rows[i])])

\* Task_Type, Task_Automation from classify_task_description, then
\* Task_Automatable_Hours and Task_Manual_Hours
TaskRow(r) ==
  LET c == classify_task_description(r.Description)
      h == HoursSplit(Val(r.Hours), c[2])
  IN  [Description |-> r.Description,
       Hours |-> r.Hours,
       Task_Type |-> Some(c[1]),
       Task_Automation |-> Some(c[2]),
       Task_Automatable_Hours |-> Some(h.automatable),
       Task_Manual_Hours |-> Some(h.manual)]

COULD_NOT_LOAD == "Could not load detailed CSV data."

\* Variant: the task-level tab is entered whatever the flag says.
TaskTabAlways(flag) == TRUE

\* if has_detailed_data: with tab6:
TaskTab(flag) == flag = Some(TRUE)

\* ---------------------------------------------------------------------------
\* The access gate: check_password and its callback
\* ---------------------------------------------------------------------------

\* The configured password, and what a user may type.
PASSWORD == "RimonAI2025"
EnteredPasswords == { "RimonAI2025", "rimonai2025", "" }

\* st.session_state before the first run of a session
EmptySession == [password_correct |-> None, password |-> None]

\* Variant: the callback accepts whatever was typed.
password_entered_any(state) == [password_correct |-> Some(TRUE), password |-> None]

\* password_entered(): on the configured password the flag is set and the
\* typed text deleted from the session state, otherwise the flag is cleared.
password_entered(state) ==
  IF state.password = Some(PASSWORD)
    THEN [password_correct |-> Some(TRUE), password |-> None]
    ELSE [state EXCEPT !.password_correct = Some(FALSE)]

\* Variant: a session that has the key passes.
check_password_key_only(state) == state.password_correct # None

\* check_password(): False with the prompt when the key is missing or holds
\* False, True otherwise
check_password(state) ==
  state.password_correct # None /\ Val(state.password_correct)

\* what the prompt shows under the text input
SECURE_ACCESS_INFO == "This dashboard contains confidential firm data and automation analysis."
INCORRECT_PASSWORD == "Incorrect password. Please try again."

Idle == <<>>

ClassifierIdle ==
  /\ text = None
  /\ tax = "none"
  /\ result = <<>>
  /\ scores = <<>>

\* No worker calls are made.
PoolIdle ==
  /\ registry = Idle
  /\ batch = <<>>
  /\ frames = Idle
  /\ labels = <<>>

\* Nothing of the tabs is computed yet.
TabsIdle ==
  /\ total_hours = 0
  /\ automatable_hours = 0
  /\ automation_rate = Idle
  /\ monthly_data = Idle
  /\ user_hours = Idle
  /\ matter_hours = Idle
  /\ oli_total = 0
  /\ oli_automatable = 0
  /\ oli_rate = Idle
  /\ oli_manual = 0
  /\ oli_manual_delta = Idle
  /\ oli_monthly = Idle
  /\ matter_analysis = Idle
  /\ avg_hourly_rate = 0
  /\ ai_efficiency_gain = Idle
  /\ ai_cost_per_hour = 0
  /\ hours_saved = Idle
  /\ labor_saved = Idle
  /\ ai_cost = Idle
  /\ net_savings = Idle
  /\ roi = Idle
  /\ hours_saved_delta = Idle
  /\ category_savings = Idle
  /\ monthly_savings = Idle
  /\ current_data = Idle
  /\ months_elapsed = 0
  /\ months_remaining = 0
  /\ monthly_avg = Idle
  /\ projected_total = Idle
  /\ projected_automatable = Idle
  /\ projected_delta = Idle
  /\ projected_savings = Idle
  /\ projection_df = Idle
  /\ scenario_results = Idle
  /\ warning = None

\* Nothing of the task-level tab is computed yet.
TaskLevelIdle ==
  /\ detailed_csv_path = None
  /\ has_detailed_data = None
  /\ detailed_df = Idle
  /\ task_total = 0
  /\ task_auto = 0
  /\ task_rate = Idle
  /\ error = None

\* The session of a user who has entered the password: the key holds True
\* and the typed text is deleted.
SessionGranted ==
  /\ session_state = [password_correct |-> Some(TRUE), password |-> None]
  /\ clicked = FALSE
  /\ prompt = None

\* No session, no task-level export.
SessionIdle ==
  /\ session_state = EmptySession
  /\ clicked = FALSE
  /\ prompt = None
  /\ data_folder = [i \in 1..3 |-> None]

DashboardIdle ==
  /\ csv = <<>>
  /\ df = <<>>
  /\ selected_years = {}
  /\ selected_users = {}
  /\ filtered_df = <<>>
  /\ TabsIdle
  /\ TaskLevelIdle
  /\ SessionIdle

\* The variables of the script as a run finds them
ScriptReset ==
  /\ df' = <<>>
  /\ selected_years' = {}
  /\ selected_users' = {}
  /\ filtered_df' = <<>>
  /\ total_hours' = 0
  /\ automatable_hours' = 0
  /\ automation_rate' = Idle
  /\ monthly_data' = Idle
  /\ user_hours' = Idle
  /\ matter_hours' = Idle
  /\ oli_total' = 0
  /\ oli_automatable' = 0
  /\ oli_rate' = Idle
  /\ oli_manual' = 0
  /\ oli_manual_delta' = Idle
  /\ oli_monthly' = Idle
  /\ matter_analysis' = Idle
  /\ avg_hourly_rate' = 0
  /\ ai_efficiency_gain' = Idle
  /\ ai_cost_per_hour' = 0
  /\ hours_saved' = Idle
  /\ labor_saved' = Idle
  /\ ai_cost' = Idle
  /\ net_savings' = Idle
  /\ roi' = Idle
  /\ hours_saved_delta' = Idle
  /\ category_savings' = Idle
  /\ monthly_savings' = Idle
  /\ current_data' = Idle
  /\ months_elapsed' = 0
  /\ months_remaining' = 0
  /\ monthly_avg' = Idle
  /\ projected_total' = Idle
  /\ projected_automatable' = Idle
  /\ projected_delta' = Idle
  /\ projected_savings' = Idle
  /\ projection_df' = Idle
  /\ scenario_results' = Idle
  /\ warning' = None
  /\ detailed_csv_path' = None
  /\ has_detailed_data' = None
  /\ detailed_df' = Idle
  /\ task_total' = 0
  /\ task_auto' = 0
  /\ task_rate' = Idle
  /\ error' = None

\* One run of main() for a user who has passed the gate, with no task-level
\* export in the folders.
Init ==
  /\ pc = "main"
  /\ csv \in Exports(MaxEntries)
  /\ df = <<>>
  /\ selected_years = {}
  /\ selected_users = {}
  /\ filtered_df = <<>>
  /\ TabsIdle
  /\ ClassifierIdle
  /\ PoolIdle
  /\ TaskLevelIdle
  /\ SessionGranted
  /\ data_folder = [i \in 1..3 |-> None]

\* df = load_data(csv_path)
LoadData ==
  /\ pc = "main"
  /\ df' = load_data(csv)
  /\ pc' = "loaded"
  /\ UNCHANGED <<csv, selection, tab1, tab2, tab3, tab4, classifier, pool,
                 session, data_folder, detailed, tab6>>

\* Handle flat fee entries - count as 1 hour for analysis
FlatFee ==
  /\ pc = "loaded"
  /\ df' = [i \in 1..Len(df) |-> FlatFeeRow(df[i])]
  /\ pc' = "flat_fee"
  /\ UNCHANGED <<csv, selection, tab1, tab2, tab3, tab4, classifier, pool,
                 session, data_folder, detailed, tab6>>

\* The year and user multiselects and the filtering of df.  The offered
\* years and users are the non-NaN values of the columns; any subset may be
\* selected.
ApplyFilters ==
  /\ pc = "flat_fee"
  /\ \E years \in SUBSET Unique(df, "Year") :
     \E users \in SUBSET Unique(df, "User_Name") :
       /\ selected_years' = years
       /\ selected_users' = users
       /\ filtered_df' =
            LET by_year == SelectSeq(df, LAMBDA r : isin(r.Year, years))
            IN  IF users # {}
                  THEN SelectSeq(by_year, LAMBDA r : isin(r.User_Name, users))
                  ELSE by_year
  /\ pc' = "filtered"
  /\ UNCHANGED <<csv, df, tab1, tab2, tab3, tab4, classifier, pool,
                 session, data_folder, detailed, tab6>>

\* Classify tasks; calculate automation hours; check for detailed CSV
ClassifyMatters ==
  /\ pc = "filtered"
  /\ filtered_df' = [i \in 1..Len(filtered_df) |-> LegalbenchRow(filtered_df[i])]
  /\ detailed_csv_path' = check_for_detailed_csv(data_folder)
  /\ has_detailed_data' = Some(detailed_csv_path' # None)
  /\ pc' = "classified_legalbench"
  /\ UNCHANGED <<csv, df, selected_years, selected_users, tab1, tab2, tab3, tab4,
                 classifier, pool, session, data_folder, tab6>>

\* Assigning the two classification columns from the result of apply on a
\* frame without rows raises in pandas builds where that result is an empty
\* Series; the exception is not caught and ends the run.
ClassifyMattersRaises ==
  /\ pc = "filtered"
  /\ filtered_df = <<>>
  /\ pc' = "raised"
  /\ UNCHANGED <<csv, df, selection, tab1, tab2, tab3, tab4, classifier, pool,
                 session, data_folder, detailed, tab6>>

\* TAB 1: key metrics, monthly trend, top users, top matters
Overview ==
  /\ pc = "classified_legalbench"
  /\ total_hours' = ColumnSum(filtered_df, "Billable_Hours")
  /\ automatable_hours' = ColumnSum(filtered_df, "Automatable_Hours")
  /\ automation_rate' = GuardedPercent(Hours(automatable_hours'), Hours(total_hours'))
  /\ monthly_data' = AggSum(GroupBy(filtered_df, <<"Year", "Month", "Month_Name">>),
                            <<"Billable_Hours", "Automatable_Hours", "Manual_Hours">>)
  /\ user_hours' = Top15(AggSum(GroupBy(filtered_df, <<"User_Name">>),
                                <<"Billable_Hours", "Automatable_Hours">>))
  /\ matter_hours' = Top15(AggSum(GroupBy(filtered_df, <<"Matter_Name">>),
                                  <<"Billable_Hours", "Automatable_Hours">>))
  /\ pc' = "tab1"
  /\ UNCHANGED <<csv, df, selection, tab2, tab3, tab4, classifier, pool, session, data_folder, detailed, tab6>>

\* TAB 2: classify using Rimon OLI, then the OLI hours
ClassifyOli ==
  /\ pc = "tab1"
  /\ filtered_df' = [i \in 1..Len(filtered_df) |-> OliRow(filtered_df[i])]
  /\ pc' = "classified_oli"
  /\ UNCHANGED <<csv, df, selected_years, selected_users, tab1, tab2, tab3, tab4,
                 classifier, pool, session, data_folder, detailed, tab6>>

\* TAB 2: Rimon metrics, monthly distribution, top matters
OliBenchmark ==
  /\ pc = "classified_oli"
  /\ oli_total' = ColumnSum(filtered_df, "Billable_Hours")
  /\ oli_automatable' = ColumnSum(filtered_df, "OLI_Automatable_Hours")
  /\ oli_rate' = GuardedPercent(Hours(oli_automatable'), Hours(oli_total'))
  /\ oli_manual' = ColumnSum(filtered_df, "OLI_Manual_Hours")
  /\ oli_manual_delta' = Percent(Hours(oli_manual'), Hours(oli_total'))
  /\ oli_monthly' = AggSum(GroupBy(filtered_df, <<"Year", "Month", "Month_Name">>),
                           <<"Billable_Hours", "OLI_Automatable_Hours", "OLI_Manual_Hours">>)
  /\ matter_analysis' = MatterAnalysis(filtered_df)
  /\ pc' = "tab2"
  /\ UNCHANGED <<csv, df, selection, tab1, tab3, tab4, classifier, pool, session, data_folder, detailed, tab6>>

\* TAB 3: assumptions and parameters, savings, savings by practice area,
\* cumulative savings
CostSavings ==
  /\ pc = "tab2"
  /\ \E setting \in Settings :
       LET rate == setting[1]
           gain == setting[2]
           cost == setting[3]
           s == Savings(Hours(automatable_hours), Rat(gain, 100), rate, cost)
       IN  /\ avg_hourly_rate' = rate
           /\ ai_efficiency_gain' = Rat(gain, 100)
           /\ ai_cost_per_hour' = cost
           /\ hours_saved' = s.hours_saved
           /\ labor_saved' = s.labor_saved
           /\ ai_cost' = s.ai_cost
           /\ net_savings' = s.net_savings
           /\ roi' = s.roi
           /\ hours_saved_delta' = Percent(s.hours_saved, Hours(total_hours))
           /\ category_savings' =
                Top12(WithCostSavings(AggSum(GroupBy(filtered_df, <<"Task_Category">>),
                                             <<"Automatable_Hours">>),
                                      Rat(gain, 100), rate))
           /\ monthly_savings' = MonthlySavings(filtered_df, Rat(gain, 100), rate)
  /\ pc' = "tab3"
  /\ UNCHANGED <<csv, df, selection, tab1, tab2, tab4, classifier, pool, session, data_folder, detailed, tab6>>

\* TAB 4: the projection of the year, its monthly records and the scenario
\* table when the year has rows; the warning otherwise
Predictions ==
  /\ pc = "tab3"
  /\ current_data' = CurrentData(filtered_df)
  /\ IF Len(current_data') > 0
       THEN /\ months_elapsed' = LatestMonth(current_data')
            /\ months_remaining' = MonthsRemaining(current_data')
            /\ monthly_avg' =
                 [Billable_Hours |-> Mean(ActualMonthly(current_data'), "Billable_Hours"),
                  Automatable_Hours |-> Mean(ActualMonthly(current_data'), "Automatable_Hours")]
            /\ projected_total' = Projected(current_data', "Billable_Hours")
            /\ projected_automatable' = Projected(current_data', "Automatable_Hours")
            /\ projected_delta' = Percent(projected_automatable', projected_total')
            /\ projected_savings' =
                 RatMul(RatMul(projected_automatable', ai_efficiency_gain),
                        Num(avg_hourly_rate))
            /\ projection_df' =
                 ProjectionDf(current_data', ai_efficiency_gain, avg_hourly_rate)
            /\ scenario_results' =
                 [i \in 1..Len(SCENARIOS) |->
                    ScenarioRow(SCENARIOS[i], projected_automatable', avg_hourly_rate,
                                ai_cost_per_hour)]
            /\ warning' = None
       ELSE /\ warning' = Some(NO_DATA_WARNING)
            /\ UNCHANGED <<months_elapsed, months_remaining, monthly_avg,
                           projected_total, projected_automatable, projected_delta,
                           projected_savings, projection_df, scenario_results>>
  /\ pc' = "tab4"
  /\ UNCHANGED <<csv, df, selection, tab1, tab2, tab3, classifier, pool, session, data_folder, detailed, tab6>>

Next ==
  \/ LoadData
  \/ FlatFee
  \/ ApplyFilters
  \/ ClassifyMatters
  \/ ClassifyMattersRaises
  \/ Overview
  \/ ClassifyOli
  \/ OliBenchmark
  \/ CostSavings
  \/ Predictions

Spec == Init /\ [][Next]_vars

\* ---------------------------------------------------------------------------
\* Sessions: the runs of the script, the password prompt, Logout, and the
\* task-level tab
\* ---------------------------------------------------------------------------

\* TAB 6: the task-level deep dive, entered when the flag is set
TaskLevel ==
  /\ pc = "tab4"
  /\ TaskTab(has_detailed_data)
  /\ LET loaded == load_detailed_data(data_folder, detailed_csv_path)
     IN  IF loaded # None /\ Len(Val(loaded)) > 0
           THEN /\ detailed_df' = [i \in 1..Len(Val(loaded)) |-> TaskRow(Val(loaded)[i])]
                /\ task_total' = ColumnSum(detailed_df', "Hours")
                /\ task_auto' = ColumnSum(detailed_df', "Task_Automatable_Hours")
                /\ task_rate' = GuardedPercent(Hours(task_auto'), Hours(task_total'))
                /\ error' = None
           ELSE /\ error' = Some(COULD_NOT_LOAD)
                /\ UNCHANGED <<detailed_df, task_total, task_auto, task_rate>>
  /\ pc' = "tab6"
  /\ UNCHANGED <<csv, df, selection, tab1, tab2, tab3, tab4, classifier, pool,
                 session, data_folder, detailed>>

\* The exports the sessions run on.
SessionExports ==
  { <<>>,
    << [date |-> Some(<<2025, 1>>), hours |-> Some(10000), rate |-> Some("Hourly"),
        matter |-> Some(ACQUISITION_AGREEMENT_REVIEW), user |-> Some("alice")],
       [date |-> Some(<<2025, 3>>), hours |-> Some(4000), rate |-> Some("Hourly"),
        matter |-> Some(TRUST), user |-> None] >> }

\* A new browser session: nothing in st.session_state, the script about to run.
InitSession ==
  /\ pc = "run"
  /\ csv \in SessionExports
  /\ data_folder \in DataFolders
  /\ session_state = EmptySession
  /\ clicked = FALSE
  /\ prompt = None
  /\ df = <<>>
  /\ selected_years = {}
  /\ selected_users = {}
  /\ filtered_df = <<>>
  /\ TabsIdle
  /\ TaskLevelIdle
  /\ ClassifierIdle
  /\ PoolIdle

\* main(): check_password() is False; the prompt is shown, with the text
\* input registered under the key 'password', and main returns.
Prompt ==
  /\ pc = "run"
  /\ ~check_password(session_state)
  /\ prompt' = IF session_state.password_correct = None
                 THEN Some(SECURE_ACCESS_INFO)
                 ELSE Some(INCORRECT_PASSWORD)
  /\ session_state' = [session_state EXCEPT !.password = fillna(@, "")]
  /\ pc' = "prompt"
  /\ UNCHANGED <<clicked, csv, df, selection, tab1, tab2, tab3, tab4, classifier, pool,
                 data_folder, detailed, tab6>>

\* main(): check_password() is True and the Logout button was pressed: the
\* key is cleared and st.rerun() starts the script again.
Logout ==
  /\ pc = "run"
  /\ check_password(session_state)
  /\ clicked
  /\ session_state' = [session_state EXCEPT !.password_correct = Some(FALSE)]
  /\ clicked' = FALSE
  /\ pc' = "run"
  /\ UNCHANGED <<prompt, csv, df, selection, tab1, tab2, tab3, tab4, classifier, pool,
                 data_folder, detailed, tab6>>

\* main(): check_password() is True and the Logout button was not pressed:
\* the run goes on to load the data.
PassGate ==
  /\ pc = "run"
  /\ check_password(session_state)
  /\ ~clicked
  /\ prompt' = None
  /\ pc' = "main"
  /\ UNCHANGED <<session_state, clicked, csv, df, selection, tab1, tab2, tab3, tab4,
                 classifier, pool, data_folder, detailed, tab6>>

\* The user changes the text of the password input; on_change is pending.
TypePassword ==
  /\ pc = "prompt"
  /\ \E p \in EnteredPasswords :
       /\ Some(p) # session_state.password
       /\ session_state' = [session_state EXCEPT !.password = Some(p)]
  /\ pc' = "callback"
  /\ UNCHANGED <<clicked, prompt, csv, df, selection, tab1, tab2, tab3, tab4, classifier,
                 pool, data_folder, detailed, tab6>>

\* on_change=password_entered, then the script runs again
PasswordEntered ==
  /\ pc = "callback"
  /\ session_state' = password_entered(session_state)
  /\ pc' = "run"
  /\ UNCHANGED <<clicked, prompt, csv, df, selection, tab1, tab2, tab3, tab4, classifier,
                 pool, data_folder, detailed, tab6>>

\* The run of the dashboard has come to its end.
RunEnded ==
  \/ pc \in {"tab6", "raised"}
  \/ pc = "tab4" /\ ~TaskTab(has_detailed_data)

\* The user changes a widget of the dashboard: the script runs again.
Interact ==
  /\ RunEnded
  /\ ScriptReset
  /\ clicked' = FALSE
  /\ pc' = "run"
  /\ UNCHANGED <<session_state, prompt, csv, classifier, pool, data_folder>>

\* The user presses Logout: the script runs again with the button set.
ClickLogout ==
  /\ RunEnded
  /\ ScriptReset
  /\ clicked' = TRUE
  /\ pc' = "run"
  /\ UNCHANGED <<session_state, prompt, csv, classifier, pool, data_folder>>

NextSession ==
  \/ Prompt
  \/ Logout
  \/ PassGate
  \/ TypePassword
  \/ PasswordEntered
  \/ LoadData
  \/ FlatFee
  \/ ApplyFilters
  \/ ClassifyMatters
  \/ ClassifyMattersRaises
  \/ Overview
  \/ ClassifyOli
  \/ OliBenchmark
  \/ CostSavings
  \/ Predictions
  \/ TaskLevel
  \/ Interact
  \/ ClickLogout

SpecSession == InitSession /\ [][NextSession]_vars

\* ---------------------------------------------------------------------------
\* Inputs of the classifier specification
\* ---------------------------------------------------------------------------

\* Words and phrases the input texts are built from.
Fragments ==
  { <<"A","c","q","u","i","s","i","t","i","o","n">>,
    <<"A","g","r","e","e","m","e","n","t">>,
    <<"I","n","t","e","r","n","a","l"," ","T","i","m","e">>,
    <<"T","r","a","i","n","i","n","g">>,
    <<"l","e","a","s","e">>,
    <<"G","e","n","e","r","a","l"," ","C","o","r","p","o","r","a","t","e"," ","M","a","t","t","e","r","s">>,
    <<"v","a","c","a","t","i","o","n">>,
    <<"t","r","u","s","t">>,
    <<"e","m","a","i","l">>,
    <<"R","e","v","i","e","w">>,
    <<"x","y","z">>,
    <<"s","t","a","t","u","s"," ","u","p","d","a","t","e">> }

\* Texts quoted by the dashboard and its description.
FixtureTexts ==
  { <<"A","c","q","u","i","s","i","t","i","o","n"," ","A","g","r","e","e","m","e","n","t"," ","R","e","v","i","e","w">>,
    <<"I","n","t","e","r","n","a","l"," ","T","i","m","e"," ","-"," ","T","r","a","i","n","i","n","g">>,
    <<"E","m","a","i","l"," ","r","e","g","a","r","d","i","n","g"," ","s","t","a","t","u","s">>,
    <<"R","e","v","i","e","w"," ","a","n","d"," ","a","n","a","l","y","z","e"," ","a","g","r","e","e","m","e","n","t">>,
    <<"T","e","l","e","p","h","o","n","e"," ","c","o","n","f","e","r","e","n","c","e"," ","w","i","t","h"," ","c","l","i","e","n","t">>,
    <<"N","e","g","o","t","i","a","t","e"," ","s","e","t","t","l","e","m","e","n","t">> }

MaxParts == 2

\* Fragments joined by single spaces, at most n of them.
RECURSIVE Composed(_)
Composed(n) ==
  IF n = 1 THEN Fragments
  ELSE LET shorter == Composed(n - 1)
       IN  shorter \cup { p \o <<" ">> \o f : p \in shorter, f \in Fragments }

Texts == FixtureTexts \cup Composed(MaxParts) \cup { <<>> }

\* What a classifier can be called with: NaN or a string.
ClassifierInputs == { None } \cup { Some(t) : t \in Texts }

\* ---------------------------------------------------------------------------
\* Classifier specification: one input, and one of the classifiers applied
\* to it.
\* ---------------------------------------------------------------------------

InitClassify ==
  /\ pc = "start"
  /\ text \in ClassifierInputs
  /\ tax = "none"
  /\ result = <<>>
  /\ scores = <<>>
  /\ DashboardIdle
  /\ PoolIdle

Call(name, frame) ==
  /\ pc = "start"
  /\ tax' = name
  /\ result' = frame.ret
  /\ scores' = frame.scores
  /\ pc' = "classified"
  /\ UNCHANGED <<text, csv, df, selection, tab1, tab2, tab3, tab4, pool, session,
                 data_folder, detailed, tab6>>

CallLegalbench == Call("legalbench", run_classify_matter_legalbench(text))
CallOli == Call("oli", run_classify_matter_oli(text))
CallTask == Call("task", run_classify_task_description(text))

NextClassify == CallLegalbench \/ CallOli \/ CallTask

SpecClassify == InitClassify /\ [][NextClassify]_vars

\* ---------------------------------------------------------------------------
\* The per-entry classification step run by workers
\* ---------------------------------------------------------------------------

\* The module-level tables the classifier functions read
TAXONOMIES ==
  [legalbench |-> LEGALBENCH_TASKS,
   oli |-> RIMON_OLI_BENCHMARK,
   task |-> TASK_LEVEL_AUTOMATION]

\* The value a classifier returns without a scoring category
DefaultOf(name) ==
  CASE name = "legalbench" -> LEGALBENCH_DEFAULT
    [] name = "oli" -> OLI_DEFAULT
    [] name = "task" -> TASK_DEFAULT

\* The category the scoring loop skips
ExcludedOf(name) == IF name = "oli" THEN {OLI_OVERRIDE_CATEGORY} ELSE {}

\* The locals of a call: the entry it was made for, the statement it is at,
\* the lowered text, the scores dict and the value to return
Locals(e, at, lowered, sc, ret) ==
  [entry |-> e, at |-> at, matter_lower |-> lowered, scores |-> sc, ret |-> ret]

\* A call up to its scoring loop: the return for a missing text, the
\* return of the tiered classifier for 'internal time' or 'vacation',
\* otherwise matter_lower and scores = {}
Enter(name, e, matter_name) ==
  IF IsNa(matter_name) THEN Locals(e, "return", <<>>, <<>>, DefaultOf(name))
  ELSE LET matter_lower == lower(Val(matter_name))
       IN  IF name = "oli" /\ OliOverride(matter_lower)
             THEN Locals(e, "return", matter_lower, <<>>, OLI_OVERRIDE_RESULT)
             ELSE Locals(e, "loop", matter_lower, EmptyScores, <<>>)

\* Variant: the results are collected in the order the calls return.
AssignedInReturnOrder(results, e, ret) ==
  LET first == CHOOSE i \in 1..Len(results) :
                 results[i] = None /\ \A j \in 1..(i - 1) : results[j] # None
  IN  [results EXCEPT ![first] = Some(ret)]

\* The result of apply is aligned on the index: the value returned for an
\* entry is assigned to that entry's row.
Assigned(results, e, ret) == [results EXCEPT ![e] = Some(ret)]

\* The threads or processes that make the calls
Workers == {"w1", "w2"}

\* The texts of the entries given to the workers
PoolTexts == {Some(ACQUISITION_AGREEMENT_REVIEW), Some(INTERNAL_TIME_TRAINING), None}

RECURSIVE Batches(_)
Batches(n) ==
  IF n = 0 THEN { <<>> }
  ELSE LET shorter == Batches(n - 1)
       IN  shorter \cup { Append(b, x) : b \in { y \in shorter : Len(y) = n - 1 }, x \in PoolTexts }

\* The tables are built when the module is loaded; the entries of a batch
\* are classified under one taxonomy.
InitParallel ==
  /\ pc = "workers"
  /\ tax \in DOMAIN TAXONOMIES
  /\ registry = TAXONOMIES
  /\ batch \in Batches(MaxEntries) \ { <<>> }
  /\ frames = [w \in Workers |-> Idle]
  /\ labels = [e \in 1..Len(batch) |-> None]
  /\ text = None
  /\ result = <<>>
  /\ scores = <<>>
  /\ DashboardIdle

\* The entries no call was made for yet
Pending ==
  { e \in 1..Len(batch) :
      labels[e] = None /\ \A w \in Workers : frames[w] = Idle \/ frames[w].entry # e }

\* A worker takes any pending entry and enters the classifier with its text.
Begin(w) ==
  /\ pc = "workers"
  /\ frames[w] = Idle
  /\ \E e \in Pending : frames' = [frames EXCEPT ![w] = Enter(tax, e, batch[e])]
  /\ UNCHANGED <<pc, classifier, session, data_folder, detailed, tab6, csv, df, selection, tab1, tab2, tab3, tab4,
                 registry, batch, labels>>

\* The scoring loop of the worker's call, over the table as it is now
Score(w) ==
  /\ pc = "workers"
  /\ frames[w] # Idle
  /\ frames[w].at = "loop"
  /\ frames' = [frames EXCEPT ![w] =
                  Locals(frames[w].entry, "scored", frames[w].matter_lower,
                         ScoreCategories(registry[tax], frames[w].matter_lower,
                                         ExcludedOf(tax)),
                         <<>>)]
  /\ UNCHANGED <<pc, classifier, session, data_folder, detailed, tab6, csv, df, selection, tab1, tab2, tab3, tab4,
                 registry, batch, labels>>

\* The call returns, the best category when scores is not empty, and its
\* value is assigned to the entry.
Return(w) ==
  /\ pc = "workers"
  /\ frames[w] # Idle
  /\ frames[w].at \in {"scored", "return"}
  /\ labels' = Assigned(labels, frames[w].entry,
                        IF frames[w].at = "scored"
                          THEN RunBest(registry[tax], frames[w].scores, DefaultOf(tax)).ret
                          ELSE frames[w].ret)
  /\ frames' = [frames EXCEPT ![w] = Idle]
  /\ UNCHANGED <<pc, classifier, session, data_folder, detailed, tab6, csv, df, selection, tab1, tab2, tab3, tab4,
                 registry, batch>>

NextParallel == \E w \in Workers : Begin(w) \/ Score(w) \/ Return(w)

SpecParallel == InitParallel /\ [][NextParallel]_vars

\* ---------------------------------------------------------------------------
\* Properties of the classifiers
\* ---------------------------------------------------------------------------

\* k occurs somewhere in s
Occurs(k, s) == \E p \in 1..(Len(s) - Len(k) + 1) : SubSeq(s, p, p + Len(k) - 1) = k

\* how many of the keywords occur in s
MatchCount(keywords, s) == Cardinality({ i \in 1..Len(keywords) : Occurs(keywords[i], s) })

TableOf(name) ==
  CASE name = "legalbench" -> LEGALBENCH_TASKS
    [] name = "oli" -> RIMON_OLI_BENCHMARK
    [] name = "task" -> TASK_LEVEL_AUTOMATION

\* positions, in the table, of the categories that take part in scoring
ScoredPositions(name) ==
  { i \in 1..Len(TableOf(name)) :
      ~(name = "oli" /\ TableOf(name)[i].category = "0% AI Replaceable - Internal & Strategic") }

\* the positions with their match counts for the text s, as a set of pairs
CountsFor(name, s) ==
  { <<i, MatchCount(TableOf(name)[i].keywords, s)>> : i \in ScoredPositions(name) }

TopCount(counts) == CHOOSE n \in { c[2] : c \in counts } : \A c \in counts : c[2] <= n

TopPositions(counts) == { c[1] : c \in { d \in counts : d[2] = TopCount(counts) } }

Earliest(positions) == CHOOSE i \in positions : \A j \in positions : i <= j

HasTrigger(s) ==
  \/ Occurs(<<"i","n","t","e","r","n","a","l"," ","t","i","m","e">>, s)
  \/ Occurs(<<"v","a","c","a","t","i","o","n">>, s)

\* the call went through the scoring loop
ReachedScoring ==
  /\ pc = "classified"
  /\ text # None
  /\ ~(tax = "oli" /\ HasTrigger(lower(Val(text))))

\* C1: whenever two or more categories share the highest nonzero match
\* score of a classifier call, the call returns the one of them that is
\* declared earliest in the taxonomy's table.
C1_TieFirstDeclared ==
  ReachedScoring =>
    LET counts == CountsFor(tax, lower(Val(text)))
    IN  (TopCount(counts) > 0 /\ Cardinality(TopPositions(counts)) >= 2)
          => result[1] = TableOf(tax)[Earliest(TopPositions(counts))].category

C1_Witness ==
  /\ ReachedScoring
  /\ LET counts == CountsFor(tax, lower(Val(text)))
     IN  /\ TopCount(counts) > 0
         /\ Cardinality(TopPositions(counts)) >= 2
         /\ result[1] = TableOf(tax)[Earliest(TopPositions(counts))].category

\* C3: under the tiered taxonomy every non-null text containing 'internal
\* time' or 'vacation', in any letter case, is classified as the 0%
\* category with potential 0, whatever else it contains, and no score is
\* computed for it.
C3_OverridePrecedesScoring ==
  (pc = "classified" /\ tax = "oli" /\ text # None /\ HasTrigger(lower(Val(text))))
    => /\ result = <<"0% AI Replaceable - Internal & Strategic", 0>>
       /\ scores = <<>>

\* a trigger together with keywords of another category that would score
C3_Witness ==
  /\ pc = "classified" /\ tax = "oli" /\ text # None
  /\ HasTrigger(lower(Val(text)))
  /\ TopCount(CountsFor("oli", lower(Val(text)))) >= 2
  /\ result = <<"0% AI Replaceable - Internal & Strategic", 0>>

\* no keyword of any category of the taxonomy occurs in s
NoKeyword(name, s) ==
  \A i \in 1..Len(TableOf(name)) : MatchCount(TableOf(name)[i].keywords, s) = 0

\* C4: a null text, an empty text and a text without any category keyword
\* resolve to the taxonomy's own default: General-Matters / 0.65 (broad),
\* Unclassified / 0.0 (tiered), General-Communication / 0.50 (task).
C4_DefaultPerTaxonomy ==
  (pc = "classified" /\ (text = None \/ NoKeyword(tax, lower(Val(text)))))
    => result = CASE tax = "legalbench" -> <<"General-Matters", 65>>
                  [] tax = "oli" -> <<"Unclassified", 0>>
                  [] tax = "task" -> <<"General-Communication", 50>>

\* a non-empty text without keywords, under the tiered taxonomy
C4_Witness ==
  /\ pc = "classified" /\ tax = "oli"
  /\ text # None /\ Val(text) # <<>>
  /\ NoKeyword("oli", lower(Val(text)))
  /\ result = <<"Unclassified", 0>>

\* C5: the dict of scores holds, for exactly the scored categories with a
\* keyword in the lower-cased text, the number of the category's keywords
\* that occur in it; the returned category's count is exceeded by no scored
\* category; the 0% category of the tiered taxonomy is never scored.
C5_ScoreIsKeywordCount ==
  ReachedScoring =>
    LET counts == CountsFor(tax, lower(Val(text)))
        tbl == TableOf(tax)
    IN  /\ { <<scores[k].category, scores[k].score>> : k \in 1..Len(scores) }
             = { <<tbl[c[1]].category, c[2]>> : c \in { d \in counts : d[2] > 0 } }
        /\ Len(scores) = Cardinality({ d \in counts : d[2] > 0 })
        /\ TopCount(counts) > 0
             => \E c \in counts : tbl[c[1]].category = result[1] /\ c[2] = TopCount(counts)
        /\ \A k \in 1..Len(scores) :
             scores[k].category # "0% AI Replaceable - Internal & Strategic"

\* a text in which a keyword occurs twice
C5_Witness ==
  /\ ReachedScoring
  /\ \E i \in ScoredPositions(tax) : \E k \in 1..Len(TableOf(tax)[i].keywords) :
       LET kw == TableOf(tax)[i].keywords[k]
           s == lower(Val(text))
       IN  Cardinality({ p \in 1..Len(s) : p + Len(kw) - 1 <= Len(s)
                                            /\ SubSeq(s, p, p + Len(kw) - 1) = kw }) >= 2
  /\ Len(scores) >= 1

\* ---------------------------------------------------------------------------
\* Properties of the dashboard run
\* ---------------------------------------------------------------------------

FlatFeeDone == pc \notin {"main", "loaded", "start", "classified"}
FiltersDone == FlatFeeDone /\ pc # "flat_fee"
LegalbenchDone == FiltersDone /\ pc \notin {"filtered", "raised"}
OverviewDone == LegalbenchDone /\ pc # "classified_legalbench"
OliDone == OverviewDone /\ pc # "tab1"
OliBenchmarkDone == OliDone /\ pc # "classified_oli"
CostSavingsDone == pc \in {"tab3", "tab4"}
PredictionsDone == pc = "tab4"

Rows(frame) == { frame[i] : i \in 1..Len(frame) }

\* C2 (as amended): "Acquisition Agreement Review" is classified under the
\* broad taxonomy as Contract-Clause-Identification with potential 0.92
\* ('agreement' and 'acquisition' tie at one keyword each and the contract
\* category is declared first), so a 10-hour entry gets 9.2 automatable and
\* 0.8 manual hours.
C2_AcquisitionAgreementReview ==
  LegalbenchDone =>
    \A r \in Rows(filtered_df) :
      r.Matter_Name = Some(ACQUISITION_AGREEMENT_REVIEW) =>
        /\ r.Task_Category = Some("Contract-Clause-Identification")
        /\ r.Automation_Potential = Some(92)
        /\ r.Billable_Hours = Some(10000) =>
             (r.Automatable_Hours = Some(9200) /\ r.Manual_Hours = Some(800))

C2_Witness ==
  /\ LegalbenchDone
  /\ \E r \in Rows(filtered_df) :
       /\ r.Matter_Name = Some(ACQUISITION_AGREEMENT_REVIEW)
       /\ r.Billable_Hours = Some(10000)
       /\ r.Automatable_Hours = Some(9200)

\* C2 as stated: the text is classified as MA-Deal-Terms with potential
\* 0.82, and a 10-hour entry gets 8.2 automatable and 1.8 manual hours.
C2_AsStated ==
  LegalbenchDone =>
    \A r \in Rows(filtered_df) :
      r.Matter_Name = Some(ACQUISITION_AGREEMENT_REVIEW) =>
        /\ r.Task_Category = Some("MA-Deal-Terms")
        /\ r.Automation_Potential = Some(82)
        /\ r.Billable_Hours = Some(10000) =>
             (r.Automatable_Hours = Some(8200) /\ r.Manual_Hours = Some(1800))

\* the hours recorded in an export row, as load_data reads them
RecordedHours(c) == IF c.hours = None THEN 0 ELSE Val(c.hours)

\* C7: once the flat-fee step has run, the analysis hours of an entry are
\* 1.0 when its rate type is exactly 'Flat Fee' and its recorded hours
\* otherwise, and Original_Hours holds the recorded hours of every entry,
\* in df and in the filtered frame.
C7_FlatFeeOverride ==
  FlatFeeDone =>
    /\ Len(df) = Len(csv)
    /\ \A i \in 1..Len(df) :
         /\ df[i].Original_Hours = Some(RecordedHours(csv[i]))
         /\ df[i].Billable_Hours =
              Some(IF csv[i].rate = Some("Flat Fee") THEN 1000 ELSE RecordedHours(csv[i]))
    /\ \A r \in Rows(filtered_df) :
         /\ r.Original_Hours # None
         /\ r.Billable_Hours =
              IF r.Rate_Type = Some("Flat Fee") THEN Some(1000) ELSE r.Original_Hours

\* a flat-fee entry recorded with 12.5 hours
C7_Witness ==
  /\ OliBenchmarkDone
  /\ \E i \in 1..Len(df) :
       /\ csv[i].rate = Some("Flat Fee")
       /\ csv[i].hours = Some(12500)
       /\ df[i].Billable_Hours = Some(1000)
       /\ df[i].Original_Hours = Some(12500)
  /\ \E r \in Rows(filtered_df) : r.Billable_Hours = Some(1000) /\ r.Original_Hours = Some(12500)

\* C8: for every entry and for every monthly and overall aggregate, under
\* the broad and under the tiered taxonomy, automatable + manual hours are
\* the analysis hours, and an entry's automatable hours are its analysis
\* hours times its potential.
C8_AutomatablePlusManual ==
  /\ LegalbenchDone =>
       \A r \in Rows(filtered_df) :
         /\ Val(r.Automatable_Hours) + Val(r.Manual_Hours) = Val(r.Billable_Hours)
         /\ Val(r.Automatable_Hours) * 100 = Val(r.Billable_Hours) * Val(r.Automation_Potential)
  /\ OverviewDone =>
       /\ \A k \in DOMAIN monthly_data :
            monthly_data[k].Automatable_Hours + monthly_data[k].Manual_Hours
              = monthly_data[k].Billable_Hours
       /\ automatable_hours + ColumnSum(filtered_df, "Manual_Hours") = total_hours
  /\ OliDone =>
       \A r \in Rows(filtered_df) :
         /\ Val(r.OLI_Automatable_Hours) + Val(r.OLI_Manual_Hours) = Val(r.Billable_Hours)
         /\ Val(r.OLI_Automatable_Hours) * 100 = Val(r.Billable_Hours) * Val(r.OLI_Automation_Potential)
  /\ OliBenchmarkDone =>
       /\ \A k \in DOMAIN oli_monthly :
            oli_monthly[k].OLI_Automatable_Hours + oli_monthly[k].OLI_Manual_Hours
              = oli_monthly[k].Billable_Hours
       /\ oli_automatable + oli_manual = oli_total

\* a month with two entries, one of them flat-fee, under both taxonomies
C8_Witness ==
  /\ OliBenchmarkDone
  /\ \E k \in DOMAIN monthly_data :
       /\ monthly_data[k].Automatable_Hours > 0
       /\ monthly_data[k].Manual_Hours > 0
       /\ oli_monthly[k].OLI_Automatable_Hours > 0
       /\ oli_monthly[k].OLI_Manual_Hours > 0
       /\ Cardinality({ i \in 1..Len(filtered_df) :
                         RowKey(filtered_df[i], <<"Year", "Month", "Month_Name">>) = Some(k) }) >= 2

GroupTotal(agg) ==
  LET Total[K \in SUBSET (DOMAIN agg)] ==
        IF K = {} THEN 0
        ELSE LET k == CHOOSE x \in K : TRUE
             IN  agg[k].Billable_Hours + Total[K \ {k}]
  IN  Total[DOMAIN agg]

\* C9: for the groupings by year/month, by user and by matter, the groups'
\* total hours add up to the analysis hours of all entries of the filtered
\* frame.
C9_SumPreserving ==
  OverviewDone =>
    LET all == ColumnSum(filtered_df, "Billable_Hours")
    IN  /\ GroupTotal(monthly_data) = all
        /\ GroupTotal(user_hours) = all
        /\ GroupTotal(matter_hours) = all

\* the group a row is counted in: that of its key, and the 'unknown' one
\* when a grouping column of the row is NaN
Bucket(r, columns) ==
  IF RowKey(r, columns) = None THEN <<"Unknown">> ELSE Val(RowKey(r, columns))

\* C10: no loaded entry is dropped: with every offered year selected and no
\* user selected the filtered frame holds every loaded entry, and every
\* entry of the filtered frame belongs to a group of each grouping, the
\* 'unknown' one when its key is missing.
C10_NoEntryDropped ==
  /\ (FiltersDone /\ selected_years = Unique(df, "Year") /\ selected_users = {})
       => Len(filtered_df) = Len(df)
  /\ OverviewDone =>
       \A r \in Rows(filtered_df) :
         /\ Bucket(r, <<"Year", "Month", "Month_Name">>) \in DOMAIN monthly_data
         /\ Bucket(r, <<"User_Name">>) \in DOMAIN user_hours
         /\ Bucket(r, <<"Matter_Name">>) \in DOMAIN matter_hours

\* ---------------------------------------------------------------------------
\* Properties of the projection
\* ---------------------------------------------------------------------------

\* A projection was produced.
Projecting == PredictionsDone /\ warning = None

\* The months of the projection year that have entries
ObservedMonths == { Val(current_data[i].Month) : i \in 1..Len(current_data) }

\* The hours of a column recorded in month m of the projection year
MonthTotal(m, column) ==
  ColumnSum(SelectSeq(current_data, LAMBDA r : r.Month = Some(m)), column)

\* The mean of the monthly sums of a column over the observed months
ObservedMean(column) ==
  Rat(SeqSum([m \in 1..12 |-> MonthTotal(m, column)]), 1000 * Cardinality(ObservedMonths))

\* C11: months_remaining is 12 minus the month the observed data reaches and
\* is never negative; projected_total is the sum of the actual total hours
\* plus the mean of the monthly totals over the observed months times
\* months_remaining, and projected_automatable is the same of the
\* automatable hours.
C11_ProjectionTotals ==
  Projecting =>
    /\ months_elapsed \in ObservedMonths
    /\ \A m \in ObservedMonths : m <= months_elapsed
    /\ months_remaining = 12 - months_elapsed
    /\ months_remaining >= 0
    /\ projected_total =
         RatAdd(Hours(ColumnSum(current_data, "Billable_Hours")),
                RatMul(ObservedMean("Billable_Hours"), Num(months_remaining)))
    /\ projected_automatable =
         RatAdd(Hours(ColumnSum(current_data, "Automatable_Hours")),
                RatMul(ObservedMean("Automatable_Hours"), Num(months_remaining)))

\* A projection from two observed months with a month without entries
\* between them, and months still to come.
C11_Witness ==
  /\ Projecting
  /\ Cardinality(ObservedMonths) = 2
  /\ months_elapsed = 3
  /\ months_remaining = 9
  /\ projected_total # Hours(ColumnSum(current_data, "Billable_Hours"))

\* C12: when the observed data reaches month 12, months_remaining is 0,
\* projected_total is the actual total hours and projected_automatable is
\* the actual automatable hours.
C12_FullYearIdentity ==
  (Projecting /\ 12 \in ObservedMonths) =>
    /\ months_remaining = 0
    /\ projected_total = Hours(ColumnSum(current_data, "Billable_Hours"))
    /\ projected_automatable = Hours(ColumnSum(current_data, "Automatable_Hours"))

\* A projection of a year observed up to December, with hours recorded.
C12_Witness ==
  /\ Projecting
  /\ 12 \in ObservedMonths
  /\ ColumnSum(current_data, "Billable_Hours") > 0
  /\ projected_automatable = Num(1000)

\* C13: there is one record for each month 1..12; a month up to
\* months_elapsed carries the total and automatable hours recorded in it
\* and is tagged 'Actual'; a later month carries the monthly averages and is
\* tagged 'Projected'.
C13_MonthRecords ==
  Projecting =>
    /\ DOMAIN projection_df = 1..12
    /\ \A m \in 1..12 :
         /\ projection_df[m].Month = m
         /\ m <= months_elapsed =>
              /\ projection_df[m].Type = "Actual"
              /\ projection_df[m].Billable_Hours = Hours(MonthTotal(m, "Billable_Hours"))
              /\ projection_df[m].Automatable_Hours = Hours(MonthTotal(m, "Automatable_Hours"))
         /\ m > months_elapsed =>
              /\ projection_df[m].Type = "Projected"
              /\ projection_df[m].Billable_Hours = ObservedMean("Billable_Hours")
              /\ projection_df[m].Automatable_Hours = ObservedMean("Automatable_Hours")

\* C14: when the filtered entries hold none of the projection year, the
\* predictions tab shows the 'no data' warning and produces no projection,
\* no monthly record and no scenario table.
C14_NoDataNotice ==
  (PredictionsDone /\ \A r \in Rows(filtered_df) : r.Year # Some(2025)) =>
    /\ warning = Some(NO_DATA_WARNING)
    /\ projection_df = Idle
    /\ scenario_results = Idle
    /\ projected_total = Idle
    /\ projected_automatable = Idle

\* The predictions tab was reached with entries of another year only.
C14_Witness ==
  /\ PredictionsDone
  /\ filtered_df # <<>>
  /\ \A r \in Rows(filtered_df) : r.Year = Some(2024)
  /\ warning # None

\* The savings of month k of the projection
MonthSaving(k) ==
  RatMul(RatMul(projection_df[k].Automatable_Hours, ai_efficiency_gain),
         Num(avg_hourly_rate))

RECURSIVE SavingsUpTo(_)
SavingsUpTo(m) == IF m = 0 THEN Num(0) ELSE RatAdd(SavingsUpTo(m - 1), MonthSaving(m))

\* C15: the cumulative savings of record m is the sum over the months 1..m
\* of automatable hours x efficiency gain x hourly rate, and the sequence
\* does not decrease when no record has negative automatable hours.
C15_CumulativeSavings ==
  Projecting =>
    /\ \A m \in 1..12 : projection_df[m].Cumulative_Savings = SavingsUpTo(m)
    /\ (\A m \in 1..12 : RatLe(Num(0), projection_df[m].Automatable_Hours)) =>
         \A m \in 1..11 : RatLe(projection_df[m].Cumulative_Savings,
                                projection_df[m + 1].Cumulative_Savings)

\* A projection whose monthly savings are positive and not all equal.
C15_Witness ==
  /\ Projecting
  /\ \A m \in 1..12 : Positive(projection_df[m].Automatable_Hours)
  /\ projection_df[1].Automatable_Hours # projection_df[3].Automatable_Hours
  /\ projection_df[12].Cumulative_Savings # projection_df[1].Cumulative_Savings

\* C16: each row of the scenario table has hours saved = projected
\* automatable x efficiency, cost saved = hours saved x hourly rate, AI cost
\* = projected automatable x AI cost per hour, net savings = cost saved - AI
\* cost and ROI = net savings / AI cost in percent; 1000 projected
\* automatable hours at $500, $10 and 0.60 give 600, 300000, 10000, 290000
\* and 2900%.
C16_ScenarioEvaluation ==
  Projecting =>
    \A i \in 1..Len(SCENARIOS) :
      LET row == scenario_results[i]
          efficiency == Rat(SCENARIOS[i].efficiency, 100)
      IN  /\ row.Hours_Saved = RatMul(projected_automatable, efficiency)
          /\ row.Cost_Saved = RatMul(row.Hours_Saved, Num(avg_hourly_rate))
          /\ row.AI_Cost = RatMul(projected_automatable, Num(ai_cost_per_hour))
          /\ row.Net_Savings = RatSub(row.Cost_Saved, row.AI_Cost)
          /\ row.AI_Cost # Num(0) =>
               row.ROI = RatMul(RatDiv(row.Net_Savings, row.AI_Cost), Num(100))
          /\ ( /\ projected_automatable = Num(1000)
               /\ avg_hourly_rate = 500
               /\ ai_cost_per_hour = 10
               /\ SCENARIOS[i].efficiency = 60 ) =>
               /\ row.Hours_Saved = Num(600)
               /\ row.Cost_Saved = Num(300000)
               /\ row.AI_Cost = Num(10000)
               /\ row.Net_Savings = Num(290000)
               /\ row.ROI = Num(2900)

\* The rates of the top matters
MatterRatesGuarded ==
  \A k \in DOMAIN matter_analysis :
    /\ IsFinite(matter_analysis[k].Automation_Rate)
    /\ matter_analysis[k].Billable_Hours = 0 => matter_analysis[k].Automation_Rate = Num(0)

\* C17: every rate or percentage is a defined number, and is 0 when its
\* denominator is 0: the automation rate, the tiered automation rate, the
\* human-required share, the per-matter rate, the hours-saved share, the
\* ROI, the projected automatable share and the ROI of each scenario.
C17_RatesGuarded ==
  /\ OverviewDone =>
       /\ IsFinite(automation_rate)
       /\ total_hours = 0 => automation_rate = Num(0)
  /\ OliBenchmarkDone =>
       /\ IsFinite(oli_rate)
       /\ IsFinite(oli_manual_delta)
       /\ oli_total = 0 => (oli_rate = Num(0) /\ oli_manual_delta = Num(0))
       /\ MatterRatesGuarded
  /\ CostSavingsDone =>
       /\ IsFinite(roi)
       /\ IsFinite(hours_saved_delta)
       /\ ai_cost = Num(0) => roi = Num(0)
       /\ total_hours = 0 => hours_saved_delta = Num(0)
  /\ Projecting =>
       /\ IsFinite(projected_delta)
       /\ projected_total = Num(0) => projected_delta = Num(0)
       /\ \A i \in 1..Len(scenario_results) :
            /\ IsFinite(scenario_results[i].ROI)
            /\ scenario_results[i].AI_Cost = Num(0) => scenario_results[i].ROI = Num(0)

\* C18: no entry carries negative hours into a sum: after loading, the
\* analysis hours of every entry are not negative, and neither are the
\* automatable and manual hours computed from them.
C18_NegativeHoursClamped ==
  /\ pc \notin {"main", "start", "classified"} =>
       \A r \in Rows(df) : Val(r.Billable_Hours) >= 0
  /\ LegalbenchDone =>
       \A r \in Rows(filtered_df) :
         /\ Val(r.Billable_Hours) >= 0
         /\ Val(r.Automatable_Hours) >= 0
         /\ Val(r.Manual_Hours) >= 0
  /\ OverviewDone => (total_hours >= 0 /\ automatable_hours >= 0)

\* The columns of the broad taxonomy, the tiered taxonomy and the hours
LEGALBENCH_COLUMNS == {"Task_Category", "Automation_Potential", "Automatable_Hours", "Manual_Hours"}
OLI_COLUMNS == {"OLI_Category", "OLI_Automation_Potential", "OLI_Automatable_Hours", "OLI_Manual_Hours"}
HOURS_COLUMNS == {"Billable_Hours", "Original_Hours"}

\* The listed columns of every entry are the same before and after a step.
Kept(columns) ==
  /\ Len(filtered_df') = Len(filtered_df)
  /\ \A i \in 1..Len(filtered_df) : \A c \in columns : filtered_df'[i][c] = filtered_df[i][c]

\* C19: the tiered classification leaves the broad-taxonomy category,
\* potential, automatable and manual hours of every entry and its analysis
\* and raw hours unchanged, and the broad classification leaves the tiered
\* columns and the hours unchanged.
C19_TaxonomiesIndependent ==
  [][ /\ (pc = "tab1" /\ pc' = "classified_oli")
         => Kept(LEGALBENCH_COLUMNS \cup HOURS_COLUMNS)
      /\ (pc = "filtered" /\ pc' = "classified_legalbench")
         => Kept(OLI_COLUMNS \cup HOURS_COLUMNS) ]_vars

\* An entry holds results of both taxonomies, with different potentials.
C19_Witness ==
  /\ pc = "classified_oli"
  /\ \E r \in Rows(filtered_df) :
       /\ r.Task_Category = Some("Contract-Clause-Identification")
       /\ r.Automation_Potential = Some(92)
       /\ r.OLI_Automation_Potential = Some(70)
       /\ r.Automatable_Hours # r.OLI_Automatable_Hours

\* ---------------------------------------------------------------------------
\* Properties of the worker calls
\* ---------------------------------------------------------------------------

\* The result of classifying one text on its own
Alone(name, matter_name) ==
  CASE name = "legalbench" -> classify_matter_legalbench(matter_name)
    [] name = "oli" -> classify_matter_oli(matter_name)
    [] name = "task" -> classify_task_description(matter_name)

\* C20: whatever the order in which the workers take the entries and however
\* their calls interleave, the taxonomy tables stay as they were built and
\* every entry that has a result has the result of classifying its own text
\* alone.
C20_OrderIndependent ==
  pc = "workers" =>
    /\ registry = TAXONOMIES
    /\ \A e \in 1..Len(batch) :
         labels[e] # None => Val(labels[e]) = Alone(tax, batch[e])

\* The second entry has its result while the call for the first entry, of a
\* different text and result, is still in its scoring loop.
C20_Witness ==
  /\ pc = "workers"
  /\ Len(batch) = 2
  /\ labels[1] = None
  /\ labels[2] # None
  /\ \E w \in Workers : frames[w] # Idle /\ frames[w].entry = 1 /\ frames[w].at = "scored"
  /\ Val(labels[2]) # Alone(tax, batch[1])

\* ---------------------------------------------------------------------------
\* Properties of the taxonomies
\* ---------------------------------------------------------------------------

\* the pair <<category, potential>> is an entry of the taxonomy's table
Registered(name, pair) ==
  \E i \in 1..Len(TableOf(name)) :
    /\ TableOf(name)[i].category = pair[1]
    /\ TableOf(name)[i].automation_potential = pair[2]

\* C21: every classifier call returns a category that is registered in its
\* taxonomy's table together with the potential registered for it, and the
\* default category of each taxonomy is an entry of its table.
C21_ReturnedCategoryRegistered ==
  pc = "classified" =>
    /\ Registered(tax, result)
    /\ Registered(tax, DefaultOf(tax))

\* C23: the task-level classifier gives the documented results for the four
\* quoted descriptions, and a task category that shares the highest score
\* with General-Communication is returned in its place.

\* the position of a category in a taxonomy's table
PositionOf(name, category) ==
  CHOOSE i \in 1..Len(TableOf(name)) : TableOf(name)[i].category = category

\* General-Communication shares the highest nonzero score of the text s with
\* another task category
TiedWithGeneral(s) ==
  LET counts == CountsFor("task", s)
  IN  /\ TopCount(counts) > 0
      /\ PositionOf("task", "General-Communication") \in TopPositions(counts)
      /\ Cardinality(TopPositions(counts)) >= 2

C23_TaskLevelExamples ==
  (pc = "classified" /\ tax = "task" /\ text # None) =>
    /\ Val(text) = EMAIL_REGARDING_STATUS => result = <<"Email-Status-Updates", 92>>
    /\ Val(text) = REVIEW_AND_ANALYZE_AGREEMENT => result = <<"Document-Analysis", 85>>
    /\ Val(text) = TELEPHONE_CONFERENCE_WITH_CLIENT => result = <<"Client-Calls", 45>>
    /\ Val(text) = NEGOTIATE_SETTLEMENT => result = <<"Negotiations", 25>>
    /\ TiedWithGeneral(lower(Val(text))) => result[1] # "General-Communication"

\* 'email regarding status' and 'email' score one each
C23_Witness ==
  /\ pc = "classified" /\ tax = "task"
  /\ text = Some(EMAIL_REGARDING_STATUS)
  /\ TiedWithGeneral(lower(Val(text)))
  /\ result = <<"Email-Status-Updates", 92>>

\* C24: under the tiered taxonomy a matter label in which a keyword of the
\* Internal & Strategic category occurs is classified into that category.
C24_InternalStrategicKeywords ==
  (pc = "classified" /\ tax = "oli" /\ text # None
     /\ MatchCount(TableOf("oli")[PositionOf("oli", OLI_OVERRIDE_CATEGORY)].keywords,
                   lower(Val(text))) > 0)
    => result = OLI_OVERRIDE_RESULT

\* C25: under the broad taxonomy every matter label in which 'internal time'
\* occurs is classified Internal-Time with potential 0, whatever other
\* keywords occur in it.
C25_InternalTimeLegalbench ==
  (pc = "classified" /\ tax = "legalbench" /\ text # None
     /\ Occurs(INTERNAL_TIME, lower(Val(text))))
    => result = <<"Internal-Time", 0>>

\* ---------------------------------------------------------------------------
\* Texts in several letter cases, and the classifiers applied to them
\* ---------------------------------------------------------------------------

\* one character of str.upper()
UpperChar(c) ==
  IF \E i \in 1..26 : LowerChars[i] = c
    THEN UpperChars[CHOOSE i \in 1..26 : LowerChars[i] = c]
    ELSE c

\* str.upper()
RECURSIVE upper(_)
upper(s) == IF s = <<>> THEN <<>> ELSE <<UpperChar(Head(s))>> \o upper(Tail(s))

\* str.swapcase()
RECURSIVE swapcase(_)
swapcase(s) ==
  IF s = <<>> THEN <<>>
  ELSE <<IF UpperChar(Head(s)) = Head(s) THEN LowerChar(Head(s)) ELSE UpperChar(Head(s))>>
         \o swapcase(Tail(s))

\* Each quoted text and fragment as written, in capitals, in small letters
\* and with the case of every letter swapped.
CaseVariants ==
  UNION { { t, upper(t), lower(t), swapcase(t) } : t \in FixtureTexts \cup Fragments }

InitCase ==
  /\ pc = "start"
  /\ text \in { Some(t) : t \in CaseVariants }
  /\ tax = "none"
  /\ result = <<>>
  /\ scores = <<>>
  /\ DashboardIdle
  /\ PoolIdle

SpecCase == InitCase /\ [][NextClassify]_vars

\* the keywords of a table's categories in capitals, category by category
RECURSIVE UpperAll(_)
UpperAll(keywords) ==
  IF keywords = <<>> THEN <<>> ELSE <<upper(Head(keywords))>> \o UpperAll(Tail(keywords))

RECURSIVE UpperKeywords(_)
UpperKeywords(table) ==
  IF table = <<>> THEN <<>>
  ELSE <<UpperAll(Head(table).keywords)>> \o UpperKeywords(Tail(table))

UPPER_LEGALBENCH == UpperKeywords(LEGALBENCH_TASKS)
UPPER_OLI == UpperKeywords(RIMON_OLI_BENCHMARK)
UPPER_TASK == UpperKeywords(TASK_LEVEL_AUTOMATION)

UpperKeywordsOf(name) ==
  CASE name = "legalbench" -> UPPER_LEGALBENCH
    [] name = "oli" -> UPPER_OLI
    [] name = "task" -> UPPER_TASK

\* C26: classification does not depend on letter case: a text, its
\* upper-cased, its lower-cased and its case-swapped form get the same
\* category and potential, and a keyword counts towards a score whenever it
\* occurs in the text with letter case disregarded (the keyword in capitals
\* occurs in the text in capitals).
C26_CaseInsensitive ==
  (pc = "classified" /\ text # None) =>
    LET capitals == upper(Val(text))
    IN  /\ result = Alone(tax, Some(capitals))
        /\ result = Alone(tax, Some(lower(Val(text))))
        /\ result = Alone(tax, Some(swapcase(Val(text))))
        /\ ReachedScoring =>
             \A i \in ScoredPositions(tax) :
               LET n == MatchCount(UpperKeywordsOf(tax)[i], capitals)
               IN  IF n = 0
                     THEN \A k \in 1..Len(scores) : scores[k].category # TableOf(tax)[i].category
                     ELSE \E k \in 1..Len(scores) :
                            /\ scores[k].category = TableOf(tax)[i].category
                            /\ scores[k].score = n

\* a text in mixed case whose keywords are matched
C26_Witness ==
  /\ ReachedScoring
  /\ Val(text) # lower(Val(text))
  /\ Val(text) # upper(Val(text))
  /\ Len(scores) >= 1
  /\ result = Alone(tax, Some(upper(Val(text))))

\* the potentials a classifier of the taxonomy can return: those of the
\* table's categories and the one of its default
Potentials(name) ==
  { TableOf(name)[i].automation_potential : i \in 1..Len(TableOf(name)) }
    \cup { DefaultOf(name)[2] }

\* C22: every automation potential, of every category of the three tables
\* and of every classified entry, lies between 0 and 1 (0..100 hundredths),
\* so the automatable hours of an entry with non-negative hours lie between
\* 0 and the entry's hours, under both matter-level taxonomies.
C22_PotentialInUnitInterval ==
  /\ \A name \in {"legalbench", "oli", "task"} : Potentials(name) \subseteq 0..100
  /\ OLI_OVERRIDE_RESULT[2] \in 0..100
  /\ LegalbenchDone =>
       \A r \in Rows(filtered_df) :
         /\ Val(r.Automation_Potential) \in 0..100
         /\ Val(r.Billable_Hours) >= 0 =>
              /\ 0 <= Val(r.Automatable_Hours)
              /\ Val(r.Automatable_Hours) <= Val(r.Billable_Hours)
  /\ OliDone =>
       \A r \in Rows(filtered_df) :
         /\ Val(r.OLI_Automation_Potential) \in 0..100
         /\ Val(r.Billable_Hours) >= 0 =>
              /\ 0 <= Val(r.OLI_Automatable_Hours)
              /\ Val(r.OLI_Automatable_Hours) <= Val(r.Billable_Hours)

\* an entry whose hours are all automatable under the tiered taxonomy (the
\* upper end of the interval) and an entry split under the broad taxonomy
C22_Witness ==
  /\ OliDone
  /\ \E r \in Rows(filtered_df) :
       /\ Val(r.Billable_Hours) > 0
       /\ Val(r.OLI_Automation_Potential) = 100
       /\ Val(r.OLI_Automatable_Hours) = Val(r.Billable_Hours)
  /\ \E r \in Rows(filtered_df) :
       /\ Val(r.Billable_Hours) > 0
       /\ 0 < Val(r.Automatable_Hours)
       /\ Val(r.Automatable_Hours) < Val(r.Billable_Hours)

\* the sum of a column over the records of the months 1..m
RECURSIVE RecordsSum(_, _)
RecordsSum(m, column) ==
  IF m = 0 THEN Num(0) ELSE RatAdd(RecordsSum(m - 1, column), projection_df[m][column])

\* C30: for every set of observed months, also with months without entries
\* between them, the total hours of the twelve monthly records sum to
\* projected_total, their automatable hours sum to projected_automatable, and
\* the last cumulative savings equal projected_automatable x efficiency gain
\* x hourly rate.
C30_ProjectionConsistent ==
  Projecting =>
    /\ RecordsSum(12, "Billable_Hours") = projected_total
    /\ RecordsSum(12, "Automatable_Hours") = projected_automatable
    /\ projection_df[12].Cumulative_Savings = projected_savings

\* ---------------------------------------------------------------------------
\* Properties of the sessions
\* ---------------------------------------------------------------------------

\* the variables main() computes from the time-entry export
matter_level == <<df, selection, tab1, tab2, tab3, tab4>>

\* a task-level export is found at one of the paths
DatasetPresent == \E i \in 1..Len(DETAILED_PATHS) : data_folder[i] # None

\* C27: in a run the presence flag of the task-level dataset is assigned
\* once, from the presence of the dataset, by a step that adds to the entries
\* only what the broad classifier gives; the task-level tab runs, and
\* task-level results appear, only when the flag is set and hence the
\* dataset present; and the step of the task-level tab leaves every
\* matter-level frame, aggregate and projection as it is.
C27_TaskLevelFramed ==
  [][ /\ has_detailed_data' # has_detailed_data =>
           \/ /\ has_detailed_data = None
              /\ has_detailed_data' = Some(DatasetPresent)
              /\ filtered_df' = [i \in 1..Len(filtered_df) |-> LegalbenchRow(filtered_df[i])]
              /\ UNCHANGED <<df, selected_years, selected_users, tab1, tab2, tab3, tab4>>
           \/ /\ pc' = "run"
              /\ has_detailed_data' = None
      /\ (tab6' # tab6 \/ pc' = "tab6") =>
           \/ /\ pc = "tab4"
              /\ pc' = "tab6"
              /\ has_detailed_data = Some(TRUE)
              /\ DatasetPresent
              /\ UNCHANGED matter_level
              /\ UNCHANGED <<detailed_csv_path, has_detailed_data>>
           \/ /\ pc' = "run"
              /\ TaskLevelIdle'
    ]_vars

\* the task-level tab has classified a dataset after the four matter-level
\* tabs were computed from entries of the projection year
C27_Witness ==
  /\ pc = "tab6"
  /\ has_detailed_data = Some(TRUE)
  /\ detailed_df # Idle
  /\ task_total > 0
  /\ total_hours > 0
  /\ warning = None
  /\ projection_df # Idle

\* the positions of a run before check_password() has returned True, and
\* those of the prompt
GatePositions == {"run", "prompt", "callback"}

\* C28: over all runs, password entries and logouts, the script's variables
\* are computed (data loaded, entries classified, tabs rendered) only in a
\* run in which session_state['password_correct'] holds True, and the key
\* becomes True only by the callback password_entered finding the entered
\* password equal to the configured one, which also deletes the entered
\* password from the session state.
C28_AccessGate ==
  [][ /\ (pc' \notin GatePositions \/ (<<matter_level, detailed, tab6>>' # <<matter_level, detailed, tab6>>)) =>
           /\ session_state.password_correct = Some(TRUE)
           /\ session_state'.password_correct = Some(TRUE)
      /\ (session_state'.password_correct = Some(TRUE)
            /\ session_state.password_correct # Some(TRUE)) =>
           /\ pc = "callback"
           /\ session_state.password = Some(PASSWORD)
           /\ session_state'.password = None
    ]_vars

\* the dashboard is rendered in a session whose entered password was deleted
C28_Witness ==
  /\ pc = "tab4"
  /\ session_state = [password_correct |-> Some(TRUE), password |-> None]
  /\ prompt = None
  /\ total_hours > 0

\* C29: while session_state['password_correct'] holds False, as Logout
\* leaves it, every run stops at the password prompt and nothing but the
\* callback finding the configured password changes the key; an entry of
\* another text leaves the key False.
C29_LogoutClosesGate ==
  [][ /\ (pc = "run" /\ check_password(session_state) /\ clicked) =>
           session_state'.password_correct = Some(FALSE)
      /\ session_state.password_correct = Some(FALSE) =>
           /\ pc = "run" => (pc' = "prompt" /\ prompt' = Some(INCORRECT_PASSWORD))
           /\ pc' \in GatePositions
           /\ session_state'.password_correct # Some(FALSE) =>
                (pc = "callback" /\ session_state.password = Some(PASSWORD))
      /\ (pc = "callback" /\ session_state.password # Some(PASSWORD)) =>
           session_state'.password_correct = Some(FALSE)
    ]_vars

\* Logout has cleared the key of a session whose entered password was
\* deleted, and the script is about to run again
C29_Witness ==
  /\ pc = "run"
  /\ session_state = [password_correct |-> Some(FALSE), password |-> None]
  /\ ~clicked

====
